---- MODULE Spec2Model ----
(***************************************************************************)
(* Model of the DSMR 4.2 telegram parser (dsmr42/src/lib.rs) and of the     *)
(* caller that feeds it a byte buffer and advances the buffer by the       *)
(* number of bytes the parser reports as consumed.                         *)
(*                                                                         *)
(* Bytes are integers 0..255, byte strings are sequences of bytes.         *)
(* A parser takes the text s and the 1-based index i of the next byte and  *)
(* returns one of                                                          *)
(*   [st |-> "Ok", pos |-> index after the match, val |-> value]           *)
(*   [st |-> "Error", kind |-> nom ErrorKind, rem |-> Len of err.input]    *)
(*   [st |-> "Incomplete"]                                                 *)
(*   [st |-> "Panic"]            (an index out of bounds: the call aborts) *)
(***************************************************************************)
EXTENDS Integers, Sequences, FiniteSets, TLC

Ok(p, v) == [st |-> "Ok", pos |-> p, val |-> v]
Error(k, r) == [st |-> "Error", kind |-> k, rem |-> r]
Incomplete == [st |-> "Incomplete"]
Panic == [st |-> "Panic"]

\* The `?` operator and the sequencing of nom combinators: the continuation K
\* runs on an Ok result, anything else is returned as it is.
Then(r, K(_)) == IF r.st = "Ok" THEN K(r) ELSE r

\* What opt, alt and map_err do with a recoverable error: an Error is
\* replaced by other, Ok and Incomplete pass.
OnError(r, other) == IF r.st = "Error" THEN other ELSE r

\* Number of bytes of s left at index i.
Rem(s, i) == Len(s) - i + 1

\* The bytes of s from index i to its end.
From(s, i) == SubSeq(s, i, Len(s))

Min(a, b) == IF a < b THEN a ELSE b

\* The least element of a set of positive indices, 0 for the empty set.
MinOrZero(S) == IF S = {} THEN 0 ELSE CHOOSE j \in S : \A h \in S : j <= h

IsDigit(c) == c >= 48 /\ c <= 57
IsHexDigit(c) == IsDigit(c) \/ (c >= 65 /\ c <= 70) \/ (c >= 97 /\ c <= 102)

(***************************************************************************)
(* nom primitives, in the streaming or complete flavour the source uses.   *)
(***************************************************************************)

\* nom::bytes::streaming::tag: a mismatch within the common length is an
\* Error, a proper prefix of the tag is Incomplete.
tag(t, s, i) ==
  IF \E k \in 1..Min(Len(t), Rem(s, i)) : s[i + k - 1] # t[k]
  THEN Error("Tag", Rem(s, i))
  ELSE IF Rem(s, i) >= Len(t) THEN Ok(i + Len(t), t)
  ELSE Incomplete

\* nom::character::streaming::char.
char(c, s, i) ==
  IF Rem(s, i) = 0 THEN Incomplete
  ELSE IF s[i] = c THEN Ok(i + 1, c)
  ELSE Error("Char", Rem(s, i))

\* nom::character::streaming::crlf.
crlf(s, i) == OnError(tag(<<13, 10>>, s, i), Error("CrLf", Rem(s, i)))

\* Index of the first occurrence of the byte string t in s at or after i,
\* or 0 when there is none.
FindSubstring(t, s, i) ==
  MinOrZero({j \in i..(Len(s) - Len(t) + 1) :
               \A k \in 1..Len(t) : s[j + k - 1] = t[k]})

\* nom::bytes::streaming::take_until: Incomplete when t does not occur.
TakeTo(j, s, i) == IF j = 0 THEN Incomplete ELSE Ok(j, SubSeq(s, i, j - 1))
\* As nom::bytes::complete::take_until: an Error when t does not occur.
take_until_complete(t, s, i) ==
  IF FindSubstring(t, s, i) = 0 THEN Error("TakeUntil", Rem(s, i))
  ELSE TakeTo(FindSubstring(t, s, i), s, i)
take_until(t, s, i) == TakeTo(FindSubstring(t, s, i), s, i)

\* Index of the first byte at or after i that fails P, or 0 when all pass.
FirstNot(P(_), s, i) == MinOrZero({j \in i..Len(s) : ~P(s[j])})

\* streaming split_at_position1 with the run ending at j: it needs a
\* terminating byte to succeed.
Split1(j, kind, s, i) ==
  IF j = 0 THEN Incomplete
  ELSE IF j = i THEN Error(kind, Rem(s, i))
  ELSE Ok(j, SubSeq(s, i, j - 1))

\* nom::character::streaming::digit1 and hex_digit1.
digit1(s, i) == Split1(FirstNot(IsDigit, s, i), "Digit", s, i)
hex_digit1(s, i) == Split1(FirstNot(IsHexDigit, s, i), "HexDigit", s, i)

\* nom::bytes::streaming::take_while_m_n(n, n, is_digit) with the run of
\* digits ending at j (0: the input ends in digits).
TakeN(j, n, s, i) ==
  IF j # 0
  THEN IF j - i >= n THEN Ok(i + n, SubSeq(s, i, i + n - 1))
       ELSE Error("TakeWhileMN", Rem(s, i))
  ELSE IF Rem(s, i) >= n THEN Ok(i + n, SubSeq(s, i, i + n - 1))
       ELSE Incomplete
take_digits_streaming(n, s, i) == TakeN(FirstNot(IsDigit, s, i), n, s, i)

\* nom::bytes::complete::take_while_m_n(n, n, is_digit): too few digits is an
\* Error, also at the end of the input.
AtEnd(r, s, i) == IF r.st = "Incomplete" THEN Error("TakeWhileMN", Rem(s, i)) ELSE r
take_digits_complete(n, s, i) == AtEnd(take_digits_streaming(n, s, i), s, i)

\* Value of a string of decimal digits.
RECURSIVE DecVal(_)
DecVal(d) ==
  IF d = <<>> THEN 0
  ELSE 10 * DecVal(SubSeq(d, 1, Len(d) - 1)) + (d[Len(d)] - 48)

\* str::parse::<u8>() of a digit string: the accumulator is checked at
\* every digit, -1 stands for Err(ParseIntError).
Acc8(a, digit) == IF a < 0 \/ 10 * a + digit > 255 THEN -1 ELSE 10 * a + digit
RECURSIVE ParseU8(_)
ParseU8(d) ==
  IF d = <<>> THEN 0
  ELSE Acc8(ParseU8(SubSeq(d, 1, Len(d) - 1)), d[Len(d)] - 48)

(***************************************************************************)
(* Value decoders.                                                         *)
(***************************************************************************)

\* map_res(_, parse::<u8>): a failed conversion is an Error at the input the
\* digits were taken from.
ToU8(v, pos, rem) == IF v < 0 THEN Error("MapRes", rem) ELSE Ok(pos, v)

\* map_res(digit1, parse::<u8>).
u8(s, i) == Then(digit1(s, i), LAMBDA r : ToU8(ParseU8(r.val), r.pos, Rem(s, i)))

\* map_res(complete take_while_m_n(digits, digits, is_digit), parse::<u8>).
u8_complete(digits, s, i) ==
  Then(take_digits_complete(digits, s, i),
       LAMBDA r : ToU8(ParseU8(r.val), r.pos, Rem(s, i)))

\* map_res(complete take_while_m_n(digits, digits, is_digit), parse::<u32>);
\* the wired widths are at most 5 digits, which always fit a u32.
u32_complete(digits, s, i) ==
  Then(take_digits_complete(digits, s, i), LAMBDA r : Ok(r.pos, DecVal(r.val)))

RECURSIVE Pow10(_)
Pow10(n) == IF n = 0 THEN 1 ELSE 10 * Pow10(n - 1)

\* integer part (streaming take_while_m_n, then "."), fractional part
\* (streaming take_while_m_n), combined as integer * 10^decimals + fractional.
fixed_point_short_scale(digits, decimals, s, i) ==
  Then(take_digits_streaming(digits, s, i), LAMBDA a :
  Then(tag(<<46>>, s, a.pos), LAMBDA dot :
  Then(take_digits_streaming(decimals, s, dot.pos), LAMBDA f :
  Ok(f.pos, DecVal(a.val) * Pow10(decimals - 1) + DecVal(f.val)))))
fixed_point(digits, decimals, s, i) ==
  Then(take_digits_streaming(digits, s, i), LAMBDA a :
  Then(tag(<<46>>, s, a.pos), LAMBDA dot :
  Then(take_digits_streaming(decimals, s, dot.pos), LAMBDA f :
  Ok(f.pos, DecVal(a.val) * Pow10(decimals) + DecVal(f.val)))))

\* alt((char('S'), char('W'))): the second branch is tried on Error only.
dst_marker(s, i) == OnError(char(83, s, i), char(87, s, i))

\* Six two-digit groups and the S/W marker.
timestamp_two_digit_year(s, i) ==
  Then(u8_complete(2, s, i), LAMBDA yy :
  Then(u8_complete(2, s, yy.pos), LAMBDA mo :
  Then(u8_complete(2, s, mo.pos), LAMBDA dd :
  Then(u8_complete(2, s, dd.pos), LAMBDA hh :
  Then(u8_complete(2, s, hh.pos), LAMBDA mi :
  Then(u8_complete(2, s, mi.pos), LAMBDA ss :
  Then(dst_marker(s, ss.pos), LAMBDA m :
  Ok(m.pos, [year |-> yy.val, month |-> mo.val, day |-> dd.val,
             hour |-> hh.val, minute |-> mi.val, second |-> ss.val,
             dst |-> (m.val = 83)]))))))))
timestamp(s, i) ==
  Then(u8_complete(2, s, i), LAMBDA yy :
  Then(u8_complete(2, s, yy.pos), LAMBDA mo :
  Then(u8_complete(2, s, mo.pos), LAMBDA dd :
  Then(u8_complete(2, s, dd.pos), LAMBDA hh :
  Then(u8_complete(2, s, hh.pos), LAMBDA mi :
  Then(u8_complete(2, s, mi.pos), LAMBDA ss :
  Then(dst_marker(s, ss.pos), LAMBDA m :
  Ok(m.pos, [year |-> yy.val + 2000, month |-> mo.val, day |-> dd.val,
             hour |-> hh.val, minute |-> mi.val, second |-> ss.val,
             dst |-> (m.val = 83)]))))))))

(***************************************************************************)
(* Data lines.                                                             *)
(***************************************************************************)

MAX_COSEM_PER_LINE == 16
MAX_LINES_PER_TELEGRAM == 32

\* delimited(tag("("), take_until(")"), tag(")")).
cosem(s, i) ==
  Then(tag(<<40>>, s, i), LAMBDA open :
  Then(take_until(<<41>>, s, open.pos), LAMBDA body :
  Then(tag(<<41>>, s, body.pos), LAMBDA close :
  Ok(close.pos, body.val))))

\* terminated(u8, tag(sep)).
u8_then(sep, s, i) ==
  Then(u8(s, i), LAMBDA v :
  Then(tag(sep, s, v.pos), LAMBDA t :
  Ok(t.pos, v.val)))

\* opt(preceded(tag("."), u8)), None read as 255.
obis_f_zero(s, i) ==
  OnError(Then(tag(<<46>>, s, i), LAMBDA dot : u8(s, dot.pos)), Ok(i, 0))
obis_f(s, i) ==
  OnError(Then(tag(<<46>>, s, i), LAMBDA dot : u8(s, dot.pos)), Ok(i, 255))

obis_code(s, i) ==
  Then(u8_then(<<45>>, s, i), LAMBDA a :
  Then(u8_then(<<58>>, s, a.pos), LAMBDA b :
  Then(u8_then(<<46>>, s, b.pos), LAMBDA c :
  Then(u8_then(<<46>>, s, c.pos), LAMBDA d :
  Then(u8(s, d.pos), LAMBDA e :
  Then(obis_f(s, e.pos), LAMBDA f :
  Ok(f.pos, <<a.val, b.val, c.val, d.val, e.val, f.val>>)))))))

\* The loop of raw_line: COSEM fields are pushed until cosem() fails with an
\* Error, then the line must end with CRLF. r is the result of cosem at i.
RECURSIVE CosemLoop(_, _, _)
CosemStep_dropping(r, s, i, arr) ==
  IF r.st = "Ok"
  THEN IF Len(arr) >= MAX_COSEM_PER_LINE THEN CosemLoop(s, r.pos, arr)
       ELSE CosemLoop(s, r.pos, Append(arr, r.val))
  ELSE IF r.st = "Incomplete" THEN r
  ELSE Then(crlf(s, i), LAMBDA nl : Ok(nl.pos, arr))
CosemStep(r, s, i, arr) ==
  IF r.st = "Ok"
  THEN IF Len(arr) >= MAX_COSEM_PER_LINE THEN Error("TooLarge", Rem(s, r.pos))
       ELSE CosemLoop(s, r.pos, Append(arr, r.val))
  ELSE IF r.st = "Incomplete" THEN r
  ELSE Then(crlf(s, i), LAMBDA nl : Ok(nl.pos, arr))
CosemLoop(s, i, arr) == CosemStep(cosem(s, i), s, i, arr)

raw_line(s, i) ==
  Then(obis_code(s, i), LAMBDA o :
  Then(CosemLoop(s, o.pos, <<>>), LAMBDA c :
  Ok(c.pos, [obis |-> o.val, cosem |-> c.val])))

\* val.ok_or(..): the error of map_cosem when the line has no field.
MissingField_other_kind == Error("Tag", 0)
MissingField == Error("NonEmpty", 0)

\* map_cosem: the first COSEM field decoded by a value decoder; the value
\* decoder sees the field alone, and what follows the value is ignored.
map_cosem(fields, func(_, _)) ==
  IF fields = <<>> THEN MissingField ELSE func(fields[1], 1)

Version(s, i) == u8_complete(2, s, i)
Tariff4(s, i) == u8_complete(4, s, i)
Count5(s, i) == u32_complete(5, s, i)
Amps3(s, i) == u32_complete(3, s, i)
Energy(s, i) == fixed_point(6, 3, s, i)
Power(s, i) == fixed_point(2, 3, s, i)

\* A Line: the variant, the tariff or phase number where the variant has
\* one, the decoded number, and for Timestamp and UnknownObis the decoded
\* timestamp and the OBIS code; fields a variant lacks are 0, NoTimestamp, <<>>.
NoTimestamp ==
  [year |-> 0, month |-> 0, day |-> 0, hour |-> 0, minute |-> 0, second |-> 0,
   dst |-> FALSE]
LineOf(t, k, v) == [tag |-> t, key |-> k, val |-> v, ts |-> NoTimestamp, obis |-> <<>>]

\* A variant built from a decoded value; a decoder's failure is the line's.
Variant(t, k, r) == Then(r, LAMBDA v : Ok(0, LineOf(t, k, v.val)))
Stamp(r) == Then(r, LAMBDA v : Ok(0, [LineOf("Timestamp", 0, 0) EXCEPT !.ts = v.val]))

\* The dispatch table of line(): variant and value decoder by OBIS code;
\* phase L1 is key 1.
\* obis => Line::UnknownObis(obis): the last arm of the match.
UnknownObis_rejected(o) == Error("Tag", 0)
UnknownObis(o) == Ok(0, [LineOf("UnknownObis", 0, 0) EXCEPT !.obis = o])

Decode(o, fields) ==
  IF o = <<1, 3, 0, 2, 8, 255>> THEN Variant("Version", 0, map_cosem(fields, Version))
  ELSE IF o = <<0, 0, 1, 0, 0, 255>> THEN Stamp(map_cosem(fields, timestamp))
  ELSE IF o = <<0, 0, 96, 1, 1, 255>> THEN Ok(0, LineOf("EquipmentId", 0, 0))
  ELSE IF <<o[1], o[2], o[3], o[4], o[6]>> = <<1, 0, 1, 8, 255>>
    THEN Variant("Consumed", o[5], map_cosem(fields, Energy))
  ELSE IF <<o[1], o[2], o[3], o[4], o[6]>> = <<1, 0, 2, 8, 255>>
    THEN Variant("Produced", o[5], map_cosem(fields, Energy))
  ELSE IF o = <<0, 0, 96, 14, 0, 255>> THEN Variant("ActiveTariff", 0, map_cosem(fields, Tariff4))
  ELSE IF o = <<1, 0, 1, 7, 0, 255>> THEN Variant("TotalConsuming", 0, map_cosem(fields, Power))
  ELSE IF o = <<1, 0, 2, 7, 0, 255>> THEN Variant("TotalProducing", 0, map_cosem(fields, Power))
  ELSE IF o = <<0, 0, 96, 7, 21, 255>> THEN Variant("PowerFailures", 0, map_cosem(fields, Count5))
  ELSE IF o = <<0, 0, 96, 7, 9, 255>> THEN Variant("LongPowerFailures", 0, map_cosem(fields, Count5))
  ELSE IF o = <<1, 0, 99, 97, 0, 255>> THEN Ok(0, LineOf("PowerFailureLog", 0, 0))
  ELSE IF o = <<1, 0, 32, 32, 0, 255>> THEN Variant("VoltageSags", 0, map_cosem(fields, Count5))
  ELSE IF o = <<1, 0, 32, 36, 0, 255>> THEN Variant("VoltageSwells", 0, map_cosem(fields, Count5))
  ELSE IF o = <<1, 0, 31, 7, 0, 255>> THEN Variant("Current", 1, map_cosem(fields, Amps3))
  ELSE IF o = <<1, 0, 21, 7, 0, 255>> THEN Variant("Producing", 1, map_cosem(fields, Power))
  ELSE IF o = <<1, 0, 22, 7, 0, 255>> THEN Variant("Consuming", 1, map_cosem(fields, Power))
  ELSE UnknownObis(o)

\* line(): a raw line, then its decoding; the input continues after the
\* line's CRLF.
line(s, i) ==
  Then(raw_line(s, i), LAMBDA raw :
  Then(Decode(raw.val.obis, raw.val.cosem), LAMBDA d :
  Ok(raw.pos, d.val)))

(***************************************************************************)
(* CRC-16 and the trailer.                                                 *)
(***************************************************************************)

\* Bitwise exclusive or of two naturals.
RECURSIVE Xor(_, _)
Xor(a, b) ==
  IF a = 0 THEN b
  ELSE IF b = 0 THEN a
  ELSE 2 * Xor(a \div 2, b \div 2) + ((a + b) % 2)

\* One round of the inner loop of crc16: shift right, and xor 0xA001 in when
\* the bit shifted out was set.
CrcRound_ccitt(c) == IF c % 2 # 0 THEN Xor(c \div 2, 33800) ELSE c \div 2
CrcRound(c) == IF c % 2 # 0 THEN Xor(c \div 2, 40961) ELSE c \div 2

\* The body of the outer loop of crc16 for one byte.
CrcByte(c, byte) ==
  CrcRound(CrcRound(CrcRound(CrcRound(
    CrcRound(CrcRound(CrcRound(CrcRound(Xor(c, byte)))))))))

\* The outer loop of crc16 over data[lo..hi], entered with state c. The range
\* is split in two and the state after the first half is computed before
\* the second half is entered, which keeps the evaluation shallow.
RECURSIVE CrcRange(_, _, _, _)
CrcSecond(left, data, lo, hi) ==
  IF left >= 0 THEN CrcRange(left, data, lo, hi) ELSE left
CrcRange(c, data, lo, hi) ==
  IF lo > hi THEN c
  ELSE IF lo = hi THEN CrcByte(c, data[lo])
  ELSE CrcSecond(CrcRange(c, data, lo, (lo + hi) \div 2), data,
                 (lo + hi) \div 2 + 1, hi)

crc16_from_fifth(data) == CrcRange(0, data, 5, Len(data))
crc16(data) == CrcRange(0, data, 1, Len(data))

\* hex_val: the value of a hex digit, -1 for None.
hex_val_upper_only(c) ==
  IF c >= 65 /\ c <= 70 THEN c - 65 + 10
  ELSE IF c >= 48 /\ c <= 57 THEN c - 48
  ELSE -1
hex_val(c) ==
  IF c >= 65 /\ c <= 70 THEN c - 65 + 10
  ELSE IF c >= 97 /\ c <= 102 THEN c - 97 + 10
  ELSE IF c >= 48 /\ c <= 57 THEN c - 48
  ELSE -1

\* The first of data[0..3] that decode_hex cannot use: 0 when all four are
\* hex digits, else the 1-based index of the first byte that is absent or
\* not a hex digit.
FirstUnusable(data) ==
  MinOrZero({k \in 1..4 : k > Len(data) \/ hex_val(data[k]) < 0})

\* decode_hex into a 2-byte output: reads data[0], data[1], data[2], data[3]
\* in this order whatever the length of data. A byte that is not a hex digit
\* ends it with the error HexDigit on the whole of data; an index past the
\* end of data, met before any such byte, is out of bounds.
decode_hex(data) ==
  IF FirstUnusable(data) = 0
  THEN Ok(0, <<hex_val(data[1]) * 16 + hex_val(data[2]),
               hex_val(data[3]) * 16 + hex_val(data[4])>>)
  ELSE IF FirstUnusable(data) > Len(data) THEN Panic
  ELSE Error("HexDigit", Len(data))

\* crc(): delimited(tag("!"), hex_digit1, crlf), then the digits decoded
\* into two bytes, high byte first.
crc_low_first(s, i) ==
  Then(tag(<<33>>, s, i), LAMBDA bang :
  Then(hex_digit1(s, bang.pos), LAMBDA hex :
  Then(crlf(s, hex.pos), LAMBDA nl :
  Then(decode_hex(hex.val), LAMBDA bytes :
  Ok(nl.pos, bytes.val[2] * 256 + bytes.val[1])))))
crc(s, i) ==
  Then(tag(<<33>>, s, i), LAMBDA bang :
  Then(hex_digit1(s, bang.pos), LAMBDA hex :
  Then(crlf(s, hex.pos), LAMBDA nl :
  Then(decode_hex(hex.val), LAMBDA bytes :
  Ok(nl.pos, bytes.val[1] * 256 + bytes.val[2])))))

(***************************************************************************)
(* The framer.                                                             *)
(***************************************************************************)

\* Capacity of Telegram.device_id, an ArrayString<32>.
DEVICE_ID_CAPACITY == 32

\* delimited(tag("/"), take_until("\r\n"), pair(crlf, crlf)).
device_id(s, i) ==
  Then(tag(<<47>>, s, i), LAMBDA slash :
  Then(take_until(<<13, 10>>, s, slash.pos), LAMBDA id :
  Then(crlf(s, id.pos), LAMBDA nl1 :
  Then(crlf(s, nl1.pos), LAMBDA nl2 :
  Ok(nl2.pos, id.val)))))

\* The loop of telegram(): at every position the trailer is tried first
\* (opt(crc): an Error means no trailer here, anything else is returned),
\* then a data line, which is pushed on the line buffer. c is the result of
\* crc at i; body is the index where the body starts, the input that the
\* TooLarge error of the line buffer reports.
RECURSIVE TelegramLoop(_, _, _, _)
TrailerOrLine_one_more(c, s, body, i, lines) ==
  IF c.st = "Ok" THEN Ok(c.pos, [lines |-> lines, crc |-> c.val])
  ELSE IF c.st # "Error" THEN c
  ELSE Then(line(s, i), LAMBDA l :
         IF Len(lines) > MAX_LINES_PER_TELEGRAM THEN Error("TooLarge", Rem(s, body))
         ELSE TelegramLoop(s, body, l.pos, Append(lines, l.val)))
TrailerOrLine_newest_first(c, s, body, i, lines) ==
  IF c.st = "Ok" THEN Ok(c.pos, [lines |-> lines, crc |-> c.val])
  ELSE IF c.st # "Error" THEN c
  ELSE Then(line(s, i), LAMBDA l :
         IF Len(lines) >= MAX_LINES_PER_TELEGRAM THEN Error("TooLarge", Rem(s, body))
         ELSE TelegramLoop(s, body, l.pos, <<l.val>> \o lines))
TrailerOrLine(c, s, body, i, lines) ==
  IF c.st = "Ok" THEN Ok(c.pos, [lines |-> lines, crc |-> c.val])
  ELSE IF c.st # "Error" THEN c
  ELSE Then(line(s, i), LAMBDA l :
         IF Len(lines) >= MAX_LINES_PER_TELEGRAM THEN Error("TooLarge", Rem(s, body))
         ELSE TelegramLoop(s, body, l.pos, Append(lines, l.val)))
TelegramLoop(s, body, i, lines) == TrailerOrLine(crc(s, i), s, body, i, lines)

telegram_line_first(s) ==
  Then(device_id(s, 1), LAMBDA id :
    IF Len(id.val) > DEVICE_ID_CAPACITY THEN Error("TooLarge", Rem(s, id.pos))
    ELSE Then(line(s, id.pos), LAMBDA l :
         Then(TelegramLoop(s, id.pos, l.pos, <<l.val>>), LAMBDA t :
           Ok(t.pos, [device_id |-> id.val, lines |-> t.val.lines,
                      crc |-> t.val.crc]))))
telegram_truncating_id(s) ==
  Then(device_id(s, 1), LAMBDA id :
    Then(TelegramLoop(s, id.pos, id.pos, <<>>), LAMBDA t :
      Ok(t.pos, [device_id |-> SubSeq(id.val, 1, Min(Len(id.val), DEVICE_ID_CAPACITY)),
                 lines |-> t.val.lines, crc |-> t.val.crc])))
telegram(s) ==
  Then(device_id(s, 1), LAMBDA id :
    IF Len(id.val) > DEVICE_ID_CAPACITY THEN Error("TooLarge", Rem(s, id.pos))
    ELSE Then(TelegramLoop(s, id.pos, id.pos, <<>>), LAMBDA t :
           Ok(t.pos, [device_id |-> id.val, lines |-> t.val.lines,
                      crc |-> t.val.crc])))

(***************************************************************************)
(* parse.                                                                  *)
(***************************************************************************)

\* A UTF-8 continuation byte, 0x80..0xBF.
IsCont(b) == b >= 128 /\ b <= 191

\* Length of the UTF-8 sequence a first byte announces, 0 when the byte
\* cannot start a sequence.
Utf8Width(b) ==
  IF b < 128 THEN 1
  ELSE IF b >= 194 /\ b <= 223 THEN 2
  ELSE IF b >= 224 /\ b <= 239 THEN 3
  ELSE IF b >= 240 /\ b <= 244 THEN 4
  ELSE 0

\* Whether second may follow first in a 3- or 4-byte sequence (overlong forms,
\* surrogates and code points above U+10FFFF are excluded here).
SecondOk(first, second) ==
  \/ first = 224 /\ second >= 160 /\ second <= 191
  \/ first >= 225 /\ first <= 236 /\ IsCont(second)
  \/ first = 237 /\ second >= 128 /\ second <= 159
  \/ first >= 238 /\ first <= 239 /\ IsCont(second)
  \/ first = 240 /\ second >= 144 /\ second <= 191
  \/ first >= 241 /\ first <= 243 /\ IsCont(second)
  \/ first = 244 /\ second >= 128 /\ second <= 143

Utf8Valid == [valid |-> TRUE, valid_up_to |-> 0, error_len |-> 0]
Utf8Error(upto, len) == [valid |-> FALSE, valid_up_to |-> upto, error_len |-> len]

\* core::str::from_utf8 from index i on, all bytes before i being valid
\* text: ASCII is skipped up to the next byte p >= 0x80 (0: there is none),
\* and the sequence at p is checked. In the Utf8Error, error_len 0 stands for
\* None: the input ends inside a sequence that is valid so far.
RECURSIVE Utf8From(_, _)
Utf8At(b, p) ==
  IF p = 0 THEN Utf8Valid
  ELSE IF Utf8Width(b[p]) = 0 THEN Utf8Error(p - 1, 1)
  ELSE IF p + 1 > Len(b) THEN Utf8Error(p - 1, 0)
  ELSE IF Utf8Width(b[p]) = 2
    THEN IF ~IsCont(b[p + 1]) THEN Utf8Error(p - 1, 1) ELSE Utf8From(b, p + 2)
  ELSE IF ~SecondOk(b[p], b[p + 1]) THEN Utf8Error(p - 1, 1)
  ELSE IF p + 2 > Len(b) THEN Utf8Error(p - 1, 0)
  ELSE IF ~IsCont(b[p + 2]) THEN Utf8Error(p - 1, 2)
  ELSE IF Utf8Width(b[p]) = 3 THEN Utf8From(b, p + 3)
  ELSE IF p + 3 > Len(b) THEN Utf8Error(p - 1, 0)
  ELSE IF ~IsCont(b[p + 3]) THEN Utf8Error(p - 1, 3)
  ELSE Utf8From(b, p + 4)
Utf8From(b, i) == Utf8At(b, MinOrZero({j \in i..Len(b) : b[j] >= 128}))

from_utf8(input) == Utf8From(input, 1)

\* The pair parse returns: the consumed count and the Result, flattened.
\* kind is Ok, CrcMismatch, InvalidUtf8, Incomplete or ParseError, or Panic
\* when the call does not return; the fields of the other kinds are empty.
NoResult ==
  [consumed |-> 0, kind |-> "None", device_id |-> <<>>, lines |-> <<>>, crc |-> 0,
   calculated |-> 0, read |-> 0, pos |-> 0, code |-> ""]

\* The Err(err) arm of the from_utf8 match.
InvalidUtf8_len_only(err) ==
  [NoResult EXCEPT !.kind = "InvalidUtf8", !.consumed = err.error_len]
InvalidUtf8(err) ==
  [NoResult EXCEPT !.kind = "InvalidUtf8",
     !.consumed = IF err.error_len = 0 THEN 0
                  ELSE err.error_len + err.valid_up_to]

\* The Ok arm of the telegram match, with the CRC computed over
\* input[..telegram_length - 6].
Checked_unchecked(t, telegram_length, checksum) ==
  [NoResult EXCEPT !.kind = "Ok", !.consumed = telegram_length,
     !.device_id = t.device_id, !.lines = t.lines, !.crc = t.crc]
Checked_rejecting(t, telegram_length, checksum) ==
  IF t.crc # checksum
  THEN [NoResult EXCEPT !.kind = "CrcMismatch", !.consumed = 0,
          !.calculated = checksum, !.read = t.crc]
  ELSE [NoResult EXCEPT !.kind = "Ok", !.consumed = telegram_length,
          !.device_id = t.device_id, !.lines = t.lines, !.crc = t.crc]
Checked(t, telegram_length, checksum) ==
  IF t.crc # checksum
  THEN [NoResult EXCEPT !.kind = "CrcMismatch", !.consumed = telegram_length,
          !.calculated = checksum, !.read = t.crc]
  ELSE [NoResult EXCEPT !.kind = "Ok", !.consumed = telegram_length,
          !.device_id = t.device_id, !.lines = t.lines, !.crc = t.crc]

\* Bytes at the end of a telegram that the CRC does not cover.
TRAILER == 6

\* The bytes the CRC is computed over: &input[..telegram_length - 6].
Covered_without_bang(input, telegram_length) ==
  SubSeq(input, 1, telegram_length - TRAILER - 1)
Covered(input, telegram_length) == SubSeq(input, 1, telegram_length - TRAILER)

\* The Failure and Error arm of the telegram match: one byte is consumed,
\* and the error carries the position the framer stopped at.
Failed_skip(input, err) ==
  [NoResult EXCEPT !.kind = "ParseError", !.consumed = Len(input) - err.rem,
     !.pos = Len(input) - err.rem, !.code = err.kind]
Failed(input, err) ==
  [NoResult EXCEPT !.kind = "ParseError", !.consumed = 1,
     !.pos = Len(input) - err.rem, !.code = err.kind]

\* The match on the result r of telegram(); the telegram's length is
\* input_str.len() - remaining.len().
Framed_whole_input(r, input) ==
  IF r.st = "Ok"
  THEN Checked(r.val, Len(input), crc16(Covered(input, Len(input))))
  ELSE IF r.st = "Incomplete" THEN [NoResult EXCEPT !.kind = "Incomplete"]
  ELSE IF r.st = "Panic" THEN [NoResult EXCEPT !.kind = "Panic"]
  ELSE Failed(input, r)
Framed(r, input) ==
  IF r.st = "Ok"
  THEN Checked(r.val, Len(input) - Rem(input, r.pos),
               crc16(Covered(input, Len(input) - Rem(input, r.pos))))
  ELSE IF r.st = "Incomplete" THEN [NoResult EXCEPT !.kind = "Incomplete"]
  ELSE IF r.st = "Panic" THEN [NoResult EXCEPT !.kind = "Panic"]
  ELSE Failed(input, r)

\* The match on the result of from_utf8: the framer runs on valid text only.
Decoded(utf8, input) ==
  IF ~utf8.valid THEN InvalidUtf8(utf8) ELSE Framed(telegram(input), input)

parse(input) == Decoded(from_utf8(input), input)

(***************************************************************************)
(* Telegram::serialize and the Display of Timestamp and Phase: the text     *)
(* written, as its ASCII codes.                                             *)
(***************************************************************************)

\* "{}" of an unsigned integer: its decimal digits, and "{:0w}": the same
\* with zeros in front up to a width of w.
RECURSIVE Dec(_)
Dec(n) == IF n < 10 THEN <<48 + n>> ELSE Dec(n \div 10) \o <<48 + (n % 10)>>
RECURSIVE Pad(_, _)
Pad(d, w) == IF Len(d) >= w THEN d ELSE Pad(<<48>> \o d, w)

\* Display for Timestamp: "{:04}-{:02}-{:02}T{:02}:{:02}:{:02}", then
\* "+02:00" in summer time and "+01:00" otherwise.
TimestampText(ts) ==
  Pad(Dec(ts.year), 4) \o <<45>> \o Pad(Dec(ts.month), 2) \o <<45>>
    \o Pad(Dec(ts.day), 2) \o <<84>> \o Pad(Dec(ts.hour), 2) \o <<58>>
    \o Pad(Dec(ts.minute), 2) \o <<58>> \o Pad(Dec(ts.second), 2)
    \o (IF ts.dst THEN <<43, 48, 50, 58, 48, 48>> ELSE <<43, 48, 49, 58, 48, 48>>)

\* Display for Phase: "l1", "l2", "l3".
PhaseText(phase) == <<108, 48 + phase>>

\* The key of a line: dsmr_version, timestamp, active_tariff,
\* total_consuming, total_producing, power_failures, long_power_failures,
\* voltage_sags, voltage_swells, tariff_<n>_consumed, tariff_<n>_produced,
\* <phase>_current, <phase>_consuming, <phase>_producing.
KeyText(l) ==
  IF l.tag = "Version"
    THEN <<100, 115, 109, 114, 95, 118, 101, 114, 115, 105, 111, 110>>
  ELSE IF l.tag = "Timestamp"
    THEN <<116, 105, 109, 101, 115, 116, 97, 109, 112>>
  ELSE IF l.tag = "ActiveTariff"
    THEN <<97, 99, 116, 105, 118, 101, 95, 116, 97, 114, 105, 102, 102>>
  ELSE IF l.tag = "TotalConsuming"
    THEN <<116, 111, 116, 97, 108, 95, 99, 111, 110, 115, 117, 109, 105, 110, 103>>
  ELSE IF l.tag = "TotalProducing"
    THEN <<116, 111, 116, 97, 108, 95, 112, 114, 111, 100, 117, 99, 105, 110, 103>>
  ELSE IF l.tag = "PowerFailures"
    THEN <<112, 111, 119, 101, 114, 95, 102, 97, 105, 108, 117, 114, 101, 115>>
  ELSE IF l.tag = "LongPowerFailures"
    THEN <<108, 111, 110, 103, 95, 112, 111, 119, 101, 114, 95, 102, 97, 105, 108, 117, 114, 101, 115>>
  ELSE IF l.tag = "VoltageSags"
    THEN <<118, 111, 108, 116, 97, 103, 101, 95, 115, 97, 103, 115>>
  ELSE IF l.tag = "VoltageSwells"
    THEN <<118, 111, 108, 116, 97, 103, 101, 95, 115, 119, 101, 108, 108, 115>>
  ELSE IF l.tag = "Consumed"
    THEN <<116, 97, 114, 105, 102, 102, 95>> \o Dec(l.key) \o <<95, 99, 111, 110, 115, 117, 109, 101, 100>>
  ELSE IF l.tag = "Produced"
    THEN <<116, 97, 114, 105, 102, 102, 95>> \o Dec(l.key) \o <<95, 112, 114, 111, 100, 117, 99, 101, 100>>
  ELSE IF l.tag = "Current" THEN PhaseText(l.key) \o <<95, 99, 117, 114, 114, 101, 110, 116>>
  ELSE IF l.tag = "Consuming" THEN PhaseText(l.key) \o <<95, 99, 111, 110, 115, 117, 109, 105, 110, 103>>
  ELSE PhaseText(l.key) \o <<95, 112, 114, 111, 100, 117, 99, 105, 110, 103>>

\* The value of a line: a number, or the timestamp between double quotes.
ValueText(l) ==
  IF l.tag = "Timestamp" THEN <<34>> \o TimestampText(l.ts) \o <<34>>
  ELSE Dec(l.val)

\* The lines of the arm "_ => {}", which writes nothing.
Unwritten_without_log == {"EquipmentId", "UnknownObis"}
Unwritten == {"EquipmentId", "PowerFailureLog", "UnknownObis"}

\* One pass of the loop body: the separator, the key between double quotes,
\* ": " and the value, or nothing.
Written(separator, l) ==
  IF l.tag \in Unwritten THEN <<>>
  ELSE separator \o <<34>> \o KeyText(l) \o <<34, 58, 32>> \o ValueText(l)

\* for line in self.lines.iter() { ...; separator = "," }
RECURSIVE SerializeFrom(_, _, _)
SerializeFrom(lines, k, separator) ==
  IF k > Len(lines) THEN <<>>
  ELSE Written(separator, lines[k]) \o SerializeFrom(lines, k + 1, <<44>>)

serialize(lines) == <<123>> \o SerializeFrom(lines, 1, <<>>) \o <<125>>

(***************************************************************************)
(* What the meter puts on the wire: telegrams in the layout of              *)
(* EXAMPLE_TELEGRAM, built from a device id and data lines, and buffers     *)
(* derived from them.                                                      *)
(***************************************************************************)

\* Most data lines of a generated telegram.
MaxLines == 2
\* Most bytes that follow a telegram in a buffer.
MaxExtra == 2
\* Most parse calls the caller makes on one buffer.
MaxCalls == 3

CRLF == <<13, 10>>

\* Data lines of EXAMPLE_TELEGRAM:
\*   1-3:0.2.8(42)  0-0:96.13.1()  1-0:1.7.0(00.329*kW)  0-0:1.0.0(200208153516W)
LinePool ==
  << <<49, 45, 51, 58, 48, 46, 50, 46, 56, 40, 52, 50, 41, 13, 10>>,
     <<48, 45, 48, 58, 57, 54, 46, 49, 51, 46, 49, 40, 41, 13, 10>>,
     <<49, 45, 48, 58, 49, 46, 55, 46, 48, 40, 48, 48, 46, 51, 50, 57, 42, 107,
       87, 41, 13, 10>>,
     <<48, 45, 48, 58, 49, 46, 48, 46, 48, 40, 50, 48, 48, 50, 48, 56, 49, 53,
       51, 53, 49, 54, 87, 41, 13, 10>> >>

\* Device ids: the empty id and "XMX".
IdPool == {<<>>, <<88, 77, 88>>}

RECURSIVE Flatten(_)
Flatten(ss) == IF ss = <<>> THEN <<>> ELSE ss[1] \o Flatten(Tail(ss))

\* The ASCII hex digit of a nibble, and the 4 digits of a 16-bit value, most
\* significant first.
HexChar(v, lower) == IF v < 10 THEN 48 + v ELSE (IF lower THEN 97 ELSE 65) + v - 10
Hex4(v, lower) ==
  <<HexChar(v \div 4096, lower), HexChar((v \div 256) % 16, lower),
    HexChar((v \div 16) % 16, lower), HexChar(v % 16, lower)>>

\* "/" id CRLF CRLF, then the data lines.
Body(id, ls) == <<47>> \o id \o CRLF \o CRLF \o Flatten(ls)

\* A telegram on the wire: the body, "!", the trailer's hex digits, CRLF.
\* sum is the CRC-16 of the body and the "!", the checksum a meter sends;
\* declared is the 16-bit value the first 4 digits of the trailer spell.
Wire(id, n, body, sum, digits, declared) ==
  [id |-> id, nlines |-> n, body |-> body, sum |-> sum, digits |-> digits,
   declared |-> declared, bytes |-> body \o <<33>> \o digits \o CRLF]

\* A telegram as the meter sends it.
Sealed(id, n, body, sum, lower) == Wire(id, n, body, sum, Hex4(sum, lower), sum)
MkTelegram(id, ls, lower) ==
  Sealed(id, Len(ls), Body(id, ls), crc16(Body(id, ls) \o <<33>>), lower)

NoTelegram == Wire(<<>>, 0, <<>>, 0, <<>>, 0)

LineSeqs(n) == UNION {[1..k -> 1..Len(LinePool)] : k \in 0..n}
Lines(ix) == [k \in 1..Len(ix) |-> LinePool[ix[k]]]

\* The well-formed telegrams of the model, and a few of them for the
\* buffers that hold more than a telegram.
Telegrams ==
  {MkTelegram(id, Lines(ix), lower) :
     id \in IdPool, ix \in LineSeqs(MaxLines), lower \in BOOLEAN}
FewTelegrams ==
  {MkTelegram(<<88, 77, 88>>, Lines(ix), FALSE) : ix \in LineSeqs(1)}

\* Trailers that are not the 4 digits of the checksum sum, each with the
\* value it declares: another 16-bit value in 4 digits, or 0, 1, 2, 3 or 5
\* hex digits ("", "A", "1b", "0C3", and the 4 digits of sum + 1 then "0").
BadTrailers(sum) ==
  {<<Hex4((sum + 1) % 65536, FALSE), (sum + 1) % 65536>>,
   <<Hex4((sum + 4096) % 65536, TRUE), (sum + 4096) % 65536>>,
   <<<<>>, 0>>, <<<<65>>, 0>>, <<<<49, 98>>, 0>>, <<<<48, 67, 51>>, 0>>,
   <<Hex4((sum + 1) % 65536, FALSE) \o <<48>>, (sum + 1) % 65536>>,
   <<Hex4(sum, FALSE) \o <<48>>, sum>>}
Damaged ==
  UNION {{Wire(t.id, t.nlines, t.body, t.sum, d[1], d[2]) : d \in BadTrailers(t.sum)} :
           t \in FewTelegrams}

\* Bytes that may follow a telegram: "/", "!", "1", "A", CR, LF, the two
\* bytes of U+00E9, and 0xFF, which no UTF-8 text contains.
ExtraBytes == {47, 33, 49, 65, 13, 10, 195, 169, 255}
Extras == UNION {[1..k -> ExtraBytes] : k \in 0..MaxExtra}

\* Byte sequences that are not UTF-8 whatever follows them, each with the
\* length of its longest prefix that starts a valid sequence (1 when the
\* first byte starts none): what Utf8Error::error_len reports.
InvalidSeqs ==
  {<< <<255>>, 1 >>, << <<128>>, 1 >>, << <<192, 175>>, 1 >>, << <<245>>, 1 >>,
   << <<195, 40>>, 1 >>, << <<226, 40, 161>>, 1 >>, << <<226, 130, 40>>, 2 >>,
   << <<224, 128, 175>>, 1 >>, << <<237, 160, 128>>, 1 >>,
   << <<240, 40, 140, 188>>, 1 >>, << <<240, 159, 40, 188>>, 2 >>,
   << <<240, 159, 146, 40>>, 3 >>, << <<244, 144, 128, 128>>, 1 >>}

\* Proper prefixes of the encodings of U+00E9, U+20AC and U+1F4A9.
TruncatedSeqs ==
  {<<195>>, <<226>>, <<226, 130>>, <<240>>, <<240, 159>>, <<240, 159, 146>>}

\* Valid text: "/", "/" U+00E9 "1", and the start of a telegram.
ValidTexts ==
  {<<>>, <<47>>, <<47, 195, 169, 49>>,
   <<47, 88, 77, 88, 13, 10, 13, 10, 49, 45, 51, 58>>}

\* Bytes a transmission error may put in the place of another.
NoiseBytes == {33, 40, 65, 49, 13}

Feed(fam, t, t2, cut, extra, elen, input) ==
  [fam |-> fam, t |-> t, t2 |-> t2, cut |-> cut, extra |-> extra, elen |-> elen,
   input |-> input]

\* One telegram, alone in the buffer.
WholeFeeds ==
  {Feed("whole", t, NoTelegram, 0, <<>>, 0, t.bytes) : t \in Telegrams}

\* The first cut bytes of a telegram that is still arriving.
PrefixFeeds ==
  UNION {{Feed("prefix", t, NoTelegram, k, <<>>, 0, SubSeq(t.bytes, 1, k)) :
            k \in 0..(Len(t.bytes) - 1)} : t \in Telegrams}

\* Two telegrams back to back.
PairFeeds ==
  {Feed("pair", t, t2, 0, <<>>, 0, t.bytes \o t2.bytes) :
     t \in FewTelegrams, t2 \in FewTelegrams}

\* A telegram followed by other bytes.
ExtraFeeds ==
  {Feed("extra", t, NoTelegram, 0, x, 0, t.bytes \o x) :
     t \in FewTelegrams, x \in Extras \ {<<>>}}

\* A telegram with another trailer, followed by other bytes or by nothing.
DamagedFeeds ==
  {Feed("damaged", t, NoTelegram, 0, x, 0, t.bytes \o x) :
     t \in Damaged, x \in {<<>>, <<47>>, <<49, 13>>}}

\* Valid text, then an invalid sequence, then more bytes or nothing.
InvalidFeeds ==
  {Feed("invalid", NoTelegram, NoTelegram, Len(v), b[1] \o w, b[2], v \o b[1] \o w) :
     v \in ValidTexts, b \in InvalidSeqs, w \in {<<>>, <<49>>, <<169>>}}

\* Valid text that ends inside a multi-byte sequence.
TruncatedFeeds ==
  {Feed("truncated", NoTelegram, NoTelegram, Len(v), b, 0, v \o b) :
     v \in ValidTexts, b \in TruncatedSeqs}

\* A telegram with the byte at index cut replaced.
NoiseFeeds ==
  UNION {{Feed("noise", t, NoTelegram, k, <<b>>, 0,
               [t.bytes EXCEPT ![k] = b]) :
            k \in 1..Len(t.bytes), b \in NoiseBytes} : t \in FewTelegrams}

\* tests::EXAMPLE_TELEGRAM: a device id of 20 characters, 20 data lines and
\* the trailer "!6130".
EXAMPLE_TELEGRAM ==
  <<47, 88, 77, 88, 53, 76, 71, 66, 66, 70, 70, 66, 50, 51, 49, 50, 51, 55,
    55, 52, 49, 13, 10, 13, 10, 49, 45, 51, 58, 48, 46, 50, 46, 56, 40, 52,
    50, 41, 13, 10, 48, 45, 48, 58, 49, 46, 48, 46, 48, 40, 50, 48, 48, 50,
    48, 56, 49, 53, 51, 53, 49, 54, 87, 41, 13, 10, 48, 45, 48, 58, 57, 54,
    46, 49, 46, 49, 40, 52, 53, 51, 48, 51, 48, 51, 48, 51, 52, 51, 48, 51,
    48, 51, 49, 51, 56, 51, 52, 51, 52, 51, 48, 51, 48, 51, 52, 51, 50, 51,
    49, 51, 52, 41, 13, 10, 49, 45, 48, 58, 49, 46, 56, 46, 49, 40, 48, 48,
    52, 52, 51, 54, 46, 55, 57, 49, 42, 107, 87, 104, 41, 13, 10, 49, 45, 48,
    58, 50, 46, 56, 46, 49, 40, 48, 48, 48, 48, 48, 48, 46, 48, 48, 48, 42,
    107, 87, 104, 41, 13, 10, 49, 45, 48, 58, 49, 46, 56, 46, 50, 40, 48, 48,
    52, 50, 51, 52, 46, 52, 56, 51, 42, 107, 87, 104, 41, 13, 10, 49, 45, 48,
    58, 50, 46, 56, 46, 50, 40, 48, 48, 48, 48, 48, 48, 46, 48, 48, 48, 42,
    107, 87, 104, 41, 13, 10, 48, 45, 48, 58, 57, 54, 46, 49, 52, 46, 48, 40,
    48, 48, 48, 49, 41, 13, 10, 49, 45, 48, 58, 49, 46, 55, 46, 48, 40, 48,
    48, 46, 51, 50, 57, 42, 107, 87, 41, 13, 10, 49, 45, 48, 58, 50, 46, 55,
    46, 48, 40, 48, 48, 46, 48, 48, 48, 42, 107, 87, 41, 13, 10, 48, 45, 48,
    58, 57, 54, 46, 55, 46, 50, 49, 40, 48, 48, 48, 48, 50, 41, 13, 10, 48,
    45, 48, 58, 57, 54, 46, 55, 46, 57, 40, 48, 48, 48, 48, 51, 41, 13, 10,
    49, 45, 48, 58, 57, 57, 46, 57, 55, 46, 48, 40, 51, 41, 40, 48, 45, 48,
    58, 57, 54, 46, 55, 46, 49, 57, 41, 40, 49, 56, 48, 55, 50, 54, 50, 50,
    51, 57, 49, 55, 83, 41, 40, 48, 48, 48, 48, 48, 48, 54, 52, 54, 50, 42,
    115, 41, 40, 49, 55, 48, 51, 50, 53, 48, 51, 53, 54, 53, 56, 87, 41, 40,
    48, 48, 51, 54, 52, 49, 54, 51, 55, 52, 42, 115, 41, 40, 49, 54, 48, 49,
    50, 56, 49, 54, 49, 55, 53, 52, 87, 41, 40, 48, 48, 50, 52, 52, 54, 52,
    50, 54, 57, 42, 115, 41, 13, 10, 49, 45, 48, 58, 51, 50, 46, 51, 50, 46,
    48, 40, 48, 48, 48, 48, 48, 41, 13, 10, 49, 45, 48, 58, 51, 50, 46, 51,
    54, 46, 48, 40, 48, 48, 48, 48, 48, 41, 13, 10, 48, 45, 48, 58, 57, 54,
    46, 49, 51, 46, 49, 40, 41, 13, 10, 48, 45, 48, 58, 57, 54, 46, 49, 51,
    46, 48, 40, 41, 13, 10, 49, 45, 48, 58, 51, 49, 46, 55, 46, 48, 40, 48,
    48, 50, 42, 65, 41, 13, 10, 49, 45, 48, 58, 50, 49, 46, 55, 46, 48, 40,
    48, 48, 46, 51, 50, 57, 42, 107, 87, 41, 13, 10, 49, 45, 48, 58, 50, 50,
    46, 55, 46, 48, 40, 48, 48, 46, 48, 48, 48, 42, 107, 87, 41, 13, 10, 33,
    54, 49, 51, 48, 13, 10>>

ExampleWire ==
  Wire(SubSeq(EXAMPLE_TELEGRAM, 2, 21), 20,
       SubSeq(EXAMPLE_TELEGRAM, 1, Len(EXAMPLE_TELEGRAM) - 7),
       crc16(SubSeq(EXAMPLE_TELEGRAM, 1, Len(EXAMPLE_TELEGRAM) - 6)),
       <<54, 49, 51, 48>>, 6 * 4096 + 1 * 256 + 3 * 16 + 0)

\* The example telegram, alone in the buffer.
ExampleFeeds ==
  {Feed("example", ExampleWire, NoTelegram, 0, <<>>, 0, EXAMPLE_TELEGRAM)}

\* 2^k, and a byte with bit k inverted.
RECURSIVE Pow2(_)
Pow2(k) == IF k = 0 THEN 1 ELSE 2 * Pow2(k - 1)
FlipBit(byte, k) ==
  IF (byte \div Pow2(k)) % 2 = 1 THEN byte - Pow2(k) ELSE byte + Pow2(k)

\* A telegram with bit elen of the byte at index cut inverted, for every
\* byte the CRC covers: from "/" through the "!" of the trailer.
FlipFeeds ==
  UNION {{Feed("flip", t, NoTelegram, k, <<>>, bit,
               [t.bytes EXCEPT ![k] = FlipBit(t.bytes[k], bit)]) :
            k \in 1..(Len(t.body) + 1), bit \in 0..7} : t \in FewTelegrams}

\* Line noise in front of a telegram: 1..MaxExtra bytes of "A", "1", CR,
\* "/" and 0xFF.
GarbageBytes == {65, 49, 13, 47, 255}
Garbage == UNION {[1..k -> GarbageBytes] : k \in 1..MaxExtra}
ResyncFeeds ==
  {Feed("resync", t, NoTelegram, Len(g), g, 0, g \o t.bytes) :
     t \in FewTelegrams, g \in Garbage}

\* Telegrams with one line fewer than, exactly, and one line more than the
\* line buffer holds; the lines alternate between the first two of LinePool,
\* starting with either.
LongLines(n, first) == [k \in 1..n |-> LinePool[1 + ((k + first) % 2)]]
LongFeeds ==
  {Feed("long", MkTelegram(<<88, 77, 88>>, LongLines(n, first), FALSE), NoTelegram,
        0, <<>>, 0, MkTelegram(<<88, 77, 88>>, LongLines(n, first), FALSE).bytes) :
     n \in (MAX_LINES_PER_TELEGRAM - 1)..(MAX_LINES_PER_TELEGRAM + 1),
     first \in 0..1}

\* Data lines whose OBIS code is in no arm of line()'s match, each with the
\* code it spells:
\*   0-0:96.13.1()  9-9:9.9.9.9(z(z)(!)  1-0:1.7.1(x)  1-0:21.7.0.254(00.3)
\*   255-255:255.255.255  0-1:24.2.1(U+00E9)  1-3:0.2.8.0(42)(CR LF)
UnknownPool ==
  {
     << <<48, 45, 48, 58, 57, 54, 46, 49, 51, 46, 49, 40, 41, 13, 10>>,
        <<0, 0, 96, 13, 1, 255>> >>,
     << <<57, 45, 57, 58, 57, 46, 57, 46, 57, 46, 57, 40, 122, 40, 122, 41,
         40, 33, 41, 13, 10>>,
        <<9, 9, 9, 9, 9, 9>> >>,
     << <<49, 45, 48, 58, 49, 46, 55, 46, 49, 40, 120, 41, 13, 10>>,
        <<1, 0, 1, 7, 1, 255>> >>,
     << <<49, 45, 48, 58, 50, 49, 46, 55, 46, 48, 46, 50, 53, 52, 40, 48, 48,
         46, 51, 41, 13, 10>>,
        <<1, 0, 21, 7, 0, 254>> >>,
     << <<50, 53, 53, 45, 50, 53, 53, 58, 50, 53, 53, 46, 50, 53, 53, 46, 50,
         53, 53, 13, 10>>,
        <<255, 255, 255, 255, 255, 255>> >>,
     << <<48, 45, 49, 58, 50, 52, 46, 50, 46, 49, 40, 195, 169, 41, 13, 10>>,
        <<0, 1, 24, 2, 1, 255>> >>,
     << <<49, 45, 51, 58, 48, 46, 50, 46, 56, 46, 48, 40, 52, 50, 41, 40, 13,
         10, 41, 13, 10>>,
        <<1, 3, 0, 2, 8, 0>> >>
  }

\* A telegram of an unknown line and the Version line, in either order; cut
\* is the index of the unknown line and extra its code.
UnknownLines(u, at) ==
  IF at = 1 THEN <<u[1], LinePool[1]>> ELSE <<LinePool[1], u[1]>>
UnknownFeeds ==
  {Feed("unknown", MkTelegram(<<88, 77, 88>>, UnknownLines(u, at), FALSE), NoTelegram,
        at, u[2], 0, MkTelegram(<<88, 77, 88>>, UnknownLines(u, at), FALSE).bytes) :
     u \in UnknownPool, at \in 1..2}

\* CRLF-terminated data lines with a known code and a value its decoder
\* rejects:
\*   1-0:1.7.0(00.3)  1-0:1.7.0()  0-0:1.0.0(200208153516)  1-0:1.8.1(004436)
\*   1-3:0.2.8()  1-3:0.2.8(4)  0-0:96.7.21(002)  1-0:1.7.0(xx.329)
\*   0-0:1.0.0(20020815351W)
MalformedPool ==
  {
   <<49, 45, 48, 58, 49, 46, 55, 46, 48, 40, 48, 48, 46, 51, 41, 13, 10>>,
   <<49, 45, 48, 58, 49, 46, 55, 46, 48, 40, 41, 13, 10>>,
   <<48, 45, 48, 58, 49, 46, 48, 46, 48, 40, 50, 48, 48, 50, 48, 56, 49, 53,
     51, 53, 49, 54, 41, 13, 10>>,
   <<49, 45, 48, 58, 49, 46, 56, 46, 49, 40, 48, 48, 52, 52, 51, 54, 41, 13,
     10>>,
   <<49, 45, 51, 58, 48, 46, 50, 46, 56, 40, 41, 13, 10>>,
   <<49, 45, 51, 58, 48, 46, 50, 46, 56, 40, 52, 41, 13, 10>>,
   <<48, 45, 48, 58, 57, 54, 46, 55, 46, 50, 49, 40, 48, 48, 50, 41, 13, 10>>,
   <<49, 45, 48, 58, 49, 46, 55, 46, 48, 40, 120, 120, 46, 51, 50, 57, 41,
     13, 10>>,
   <<48, 45, 48, 58, 49, 46, 48, 46, 48, 40, 50, 48, 48, 50, 48, 56, 49, 53,
     51, 53, 49, 87, 41, 13, 10>>
  }

\* A complete telegram with a correct CRC that holds such a line, alone or
\* before the Version line.
MalformedFeeds ==
  {Feed("malformed", MkTelegram(<<88, 77, 88>>, <<l>> \o rest, FALSE), NoTelegram,
        0, l, 0, MkTelegram(<<88, 77, 88>>, <<l>> \o rest, FALSE).bytes) :
     l \in MalformedPool, rest \in {<<>>, <<LinePool[1]>>}}

\* A telegram followed by one more data line and a second trailer, "!0000".
EarlyFeeds ==
  {Feed("early", t, NoTelegram, 0, LinePool[k] \o <<33, 48, 48, 48, 48>> \o CRLF, 0,
        t.bytes \o LinePool[k] \o <<33, 48, 48, 48, 48>> \o CRLF) :
     t \in FewTelegrams, k \in 1..Len(LinePool)}

\* Telegrams whose device id is 1, 31, 32, 33, 34 or 48 letters, 16 times
\* U+00E9 (32 bytes), or 15 times U+00E9 and "AAA" (33 bytes).
IdText(n) == [k \in 1..n |-> 65 + (k % 26)]
LongIds ==
  {IdText(n) : n \in {1, DEVICE_ID_CAPACITY - 1, DEVICE_ID_CAPACITY,
                      DEVICE_ID_CAPACITY + 1, DEVICE_ID_CAPACITY + 2, 48}}
    \cup {Flatten([k \in 1..16 |-> <<195, 169>>]),
          Flatten([k \in 1..15 |-> <<195, 169>>]) \o <<65, 65, 65>>}
DeviceIdFeeds ==
  {Feed("deviceid", MkTelegram(id, ls, FALSE), NoTelegram, Len(id), <<>>, 0,
        MkTelegram(id, ls, FALSE).bytes) :
     id \in LongIds, ls \in {<<>>, <<LinePool[1]>>}}

\* Data lines without a field, an OBIS code and CRLF, each with 1 when the
\* arm of its code decodes a value and 0 when it does not:
\*   1-3:0.2.8 0-0:1.0.0 1-0:1.8.1 1-0:1.8.0 1-0:2.8.2 0-0:96.14.0
\*   1-0:1.7.0 1-0:2.7.0 0-0:96.7.21 0-0:96.7.9 1-0:32.32.0 1-0:32.36.0
\*   1-0:31.7.0 1-0:21.7.0 1-0:22.7.0 1-3:0.2.8.255 0-0:96.1.1 1-0:99.97.0
BarePool ==
  {
   << <<49, 45, 51, 58, 48, 46, 50, 46, 56, 13, 10>>, 1 >>,
   << <<48, 45, 48, 58, 49, 46, 48, 46, 48, 13, 10>>, 1 >>,
   << <<49, 45, 48, 58, 49, 46, 56, 46, 49, 13, 10>>, 1 >>,
   << <<49, 45, 48, 58, 49, 46, 56, 46, 48, 13, 10>>, 1 >>,
   << <<49, 45, 48, 58, 50, 46, 56, 46, 50, 13, 10>>, 1 >>,
   << <<48, 45, 48, 58, 57, 54, 46, 49, 52, 46, 48, 13, 10>>, 1 >>,
   << <<49, 45, 48, 58, 49, 46, 55, 46, 48, 13, 10>>, 1 >>,
   << <<49, 45, 48, 58, 50, 46, 55, 46, 48, 13, 10>>, 1 >>,
   << <<48, 45, 48, 58, 57, 54, 46, 55, 46, 50, 49, 13, 10>>, 1 >>,
   << <<48, 45, 48, 58, 57, 54, 46, 55, 46, 57, 13, 10>>, 1 >>,
   << <<49, 45, 48, 58, 51, 50, 46, 51, 50, 46, 48, 13, 10>>, 1 >>,
   << <<49, 45, 48, 58, 51, 50, 46, 51, 54, 46, 48, 13, 10>>, 1 >>,
   << <<49, 45, 48, 58, 51, 49, 46, 55, 46, 48, 13, 10>>, 1 >>,
   << <<49, 45, 48, 58, 50, 49, 46, 55, 46, 48, 13, 10>>, 1 >>,
   << <<49, 45, 48, 58, 50, 50, 46, 55, 46, 48, 13, 10>>, 1 >>,
   << <<49, 45, 51, 58, 48, 46, 50, 46, 56, 46, 50, 53, 53, 13, 10>>, 1 >>,
   << <<48, 45, 48, 58, 57, 54, 46, 49, 46, 49, 13, 10>>, 0 >>,
   << <<49, 45, 48, 58, 57, 57, 46, 57, 55, 46, 48, 13, 10>>, 0 >>
  }

\* A telegram that holds such a line, alone or after the Version line; cut
\* is the index of the line, elen its 1 or 0.
BareLines(l, at) == IF at = 1 THEN <<l>> ELSE <<LinePool[1], l>>
BareFeeds ==
  {Feed("bare", MkTelegram(<<88, 77, 88>>, BareLines(b[1], at), FALSE), NoTelegram,
        at, b[1], b[2], MkTelegram(<<88, 77, 88>>, BareLines(b[1], at), FALSE).bytes) :
     b \in BarePool, at \in 1..2}

Feeds ==
  WholeFeeds \cup PrefixFeeds \cup PairFeeds \cup ExtraFeeds \cup DamagedFeeds
    \cup InvalidFeeds \cup TruncatedFeeds \cup NoiseFeeds \cup ExampleFeeds
    \cup FlipFeeds \cup ResyncFeeds \cup LongFeeds
    \cup UnknownFeeds \cup MalformedFeeds \cup EarlyFeeds \cup DeviceIdFeeds
    \cup BareFeeds

(***************************************************************************)
(* The caller: parse the buffer, drop the consumed bytes from its front,   *)
(* parse again (tests::two_telegrams_parse_successively).                  *)
(***************************************************************************)

VARIABLES
  feed,   \* what was put in the buffer, and how it was built
  buf,    \* the caller's buffer: the bytes not yet consumed
  out,    \* the results of the parse calls made so far, oldest first
  pc,     \* "parse": about to call parse; "advance": holding a result;
          \* "aborted": the last call panicked
  json,   \* the text serialize has written
  wire,   \* the bytes the meter has sent that the UART has not delivered yet
  acc     \* the local crc of crc16(): the CRC of the bytes it has taken

vars == <<feed, buf, out, pc, json, wire, acc>>

Init ==
  /\ feed \in Feeds
  /\ buf = feed.input
  /\ out = <<>>
  /\ pc = "parse"
  /\ json = <<>>
  /\ wire = <<>>
  /\ acc = 0

\* let (read, res) = parse(buffer); a panic ends the program.
Parse ==
  /\ pc = "parse"
  /\ Len(out) < MaxCalls
  /\ out' = Append(out, parse(buf))
  /\ pc' = IF out'[Len(out')].kind = "Panic" THEN "aborted" ELSE "advance"
  /\ UNCHANGED <<feed, buf, json, wire, acc>>

\* parse(&TWO_TELEGRAMS[read1..]): the next call gets the bytes after the
\* consumed ones. With nothing consumed the caller has no more to parse.
Advance ==
  /\ pc = "advance"
  /\ out[Len(out)].consumed > 0
  /\ buf' = From(buf, out[Len(out)].consumed + 1)
  /\ pc' = "parse"
  /\ UNCHANGED <<feed, out, json, wire, acc>>

Next == Parse \/ Advance

Spec == Init /\ [][Next]_vars

(***************************************************************************)
(* Serialization of a telegram (tests::test_serialize): the telegram is    *)
(* the parsed EXAMPLE_TELEGRAM, or holds any short sequence of lines.      *)
(***************************************************************************)

\* Most lines of a telegram given to serialize.
MaxFields == 3

\* Lines of every kind of arm: Version(42), Timestamp(2020-02-08 15:35:16,
\* winter), EquipmentId, PowerFailureLog, UnknownObis(0-0:96.13.1),
\* Consumed(1, 4436.791), Current(L1, 2) and TotalProducing(0).
LineValues ==
  {LineOf("Version", 0, 42),
   [LineOf("Timestamp", 0, 0) EXCEPT
      !.ts = [year |-> 2020, month |-> 2, day |-> 8, hour |-> 15, minute |-> 35,
              second |-> 16, dst |-> FALSE]],
   LineOf("EquipmentId", 0, 0), LineOf("PowerFailureLog", 0, 0),
   [LineOf("UnknownObis", 0, 0) EXCEPT !.obis = <<0, 0, 96, 13, 1, 255>>],
   LineOf("Consumed", 1, 4436791), LineOf("Current", 1, 2),
   LineOf("TotalProducing", 0, 0)}

\* One line of every variant that serialize writes, with every phase and
\* the tariffs 1, 2 and 255, each as the only line of a telegram and after
\* a PowerFailureLog line.
VariantLines ==
  {LineOf(t, 0, 7) : t \in {"ActiveTariff", "TotalConsuming", "PowerFailures",
                            "LongPowerFailures", "VoltageSags", "VoltageSwells"}}
    \cup {LineOf(t, k, 7) : t \in {"Consumed", "Produced"}, k \in {1, 2, 255}}
    \cup {LineOf(t, k, 7) : t \in {"Current", "Consuming", "Producing"}, k \in 1..3}
VariantLists ==
  {<<l>> : l \in VariantLines}
    \cup {<<LineOf("PowerFailureLog", 0, 0), l>> : l \in VariantLines}

LineLists ==
  UNION {[1..n -> LineValues] : n \in 0..MaxFields}
    \cup {parse(EXAMPLE_TELEGRAM).lines} \cup VariantLists

SerializeInit ==
  /\ feed = Feed("lines", NoTelegram, NoTelegram, 0, <<>>, 0, <<>>)
  /\ buf = <<>>
  /\ \E ls \in LineLists : out = <<[NoResult EXCEPT !.kind = "Ok", !.lines = ls]>>
  /\ pc = "serialize"
  /\ json = <<>>
  /\ wire = <<>>
  /\ acc = 0

\* res.serialize(&mut s)
Serialize ==
  /\ pc = "serialize"
  /\ json' = serialize(out[1].lines)
  /\ pc' = "serialized"
  /\ UNCHANGED <<feed, buf, out, wire, acc>>

SerializeNext == Serialize

SerializeSpec == SerializeInit /\ [][SerializeNext]_vars

(***************************************************************************)
(* crc16() taken a byte at a time (tests::crc16_matches): buf is the data  *)
(* not yet taken, acc the local crc.                                       *)
(***************************************************************************)

\* Most bytes of the data given to crc16.
MaxData == 3

\* Every sequence of up to MaxData bytes of 0x00, 0x01, "1", 0x80 and 0xFF,
\* and the data of the test, "123456789".
DataBytes == {0, 1, 49, 128, 255}
CrcData ==
  UNION {[1..n -> DataBytes] : n \in 0..MaxData}
    \cup {<<49, 50, 51, 52, 53, 54, 55, 56, 57>>}

\* let mut crc = 0u16;
CrcInit ==
  /\ feed \in {Feed("crc", NoTelegram, NoTelegram, 0, <<>>, 0, d) : d \in CrcData}
  /\ buf = feed.input
  /\ out = <<>>
  /\ pc = "crc"
  /\ json = <<>>
  /\ wire = <<>>
  /\ acc = 0

\* One pass of `for byte in data`.
CrcStep ==
  /\ pc = "crc"
  /\ buf # <<>>
  /\ acc' = CrcByte(acc, Head(buf))
  /\ buf' = Tail(buf)
  /\ UNCHANGED <<feed, out, pc, json, wire>>

CrcNext == CrcStep

CrcSpec == CrcInit /\ [][CrcNext]_vars

(***************************************************************************)
(* The polling loop of the meter reader's main(): the receive buffer of    *)
(* DsmrUart is buf, the telegrams and errors the loop has seen are out.    *)
(***************************************************************************)

READ_BUF_SZ == 1024

\* DsmrUart::consume: the buffer without its first count bytes.
consume(buffer, count) == From(buffer, Min(count, Len(buffer)) + 1)

\* DsmrUart::clear: the empty buffer.
clear == <<>>

\* The match on the result of parse: every error but Incomplete clears the
\* receive buffer.
Matched(res, buffer) ==
  IF res.kind \in {"Ok", "Incomplete"} THEN buffer ELSE clear

\* if read > 0 { dsmr_uart.consume(read) }
Consumed(res, buffer) ==
  IF res.consumed > 0 THEN consume(buffer, res.consumed) ELSE buffer

\* The rest of a pass once parse has returned res on the polled buffer; a
\* panic ends the program.
Settle(polled, res, rest) ==
  /\ out' = Append(out, res)
  /\ wire' = rest
  /\ pc' = IF res.kind = "Panic" THEN "aborted" ELSE "loop"
  /\ buf' = IF res.kind = "Panic" THEN polled
            ELSE Consumed(res, Matched(res, polled))

\* DsmrUart::poll stores every byte the UART has at read_buffer_pos, and
\* panics on the index when the buffer is full; then parse runs on the
\* buffer.
Pass(polled, rest) ==
  IF Len(polled) > READ_BUF_SZ
  THEN /\ pc' = "aborted"
       /\ buf' = SubSeq(polled, 1, READ_BUF_SZ)
       /\ wire' = rest
       /\ UNCHANGED out
  ELSE Settle(polled, parse(polled), rest)

\* How many bytes the UART may have for a poll: none, half or all of those
\* on the wire.
Arrivals(w) == {0, (Len(w) + 1) \div 2, Len(w)}

\* A stream that never ends a line: "/" and READ_BUF_SZ times "A".
OverrunFeeds ==
  {Feed("overrun", NoTelegram, NoTelegram, 0, <<>>, 0,
        <<47>> \o [i \in 1..READ_BUF_SZ |-> 65])}

\* The buffers the loop is run on.
MainFeeds ==
  PairFeeds \cup DamagedFeeds \cup InvalidFeeds \cup TruncatedFeeds \cup ResyncFeeds
    \cup OverrunFeeds

MainInit ==
  /\ feed \in MainFeeds
  /\ buf = <<>>
  /\ out = <<>>
  /\ pc = "loop"
  /\ json = <<>>
  /\ wire = feed.input
  /\ acc = 0

\* One pass of the loop.
MainLoop ==
  /\ pc = "loop"
  /\ Len(out) < MaxCalls
  /\ \E n \in Arrivals(wire) :
       Pass(buf \o SubSeq(wire, 1, n), From(wire, n + 1))
  /\ UNCHANGED <<feed, json, acc>>

MainNext == MainLoop

MainSpec == MainInit /\ [][MainNext]_vars

(***************************************************************************)
(* The decoders called on a text of their own, as the tests call them      *)
(* (tests::crc_parses, tests::obis_with_tag_f_parses): buf is the text,    *)
(* out the result of the call.                                             *)
(***************************************************************************)

\* Trailers: "!", 4 hex digits of "0", "1", "E", "F", "a", "f", CRLF.
HexPool == {48, 49, 69, 70, 97, 102}
TrailerTexts == {<<33>> \o d \o CRLF : d \in [1..4 -> HexPool]}

\* OBIS codes as text: 5 or 6 group values in decimal, separated by "-",
\* ":" and ".", followed by an empty field and CRLF. The values are 96,
\* 255 and 256; the sixth is absent, 18, 255 or 256.
GroupPool == {96, 255, 256}
ObisText(code) ==
  Dec(code[1]) \o <<45>> \o Dec(code[2]) \o <<58>> \o Dec(code[3]) \o <<46>>
    \o Dec(code[4]) \o <<46>> \o Dec(code[5])
    \o (IF Len(code) = 6 THEN <<46>> \o Dec(code[6]) ELSE <<>>)
ObisCodes ==
  [1..5 -> GroupPool]
    \cup {c \o <<f>> : c \in [1..5 -> GroupPool], f \in {18, 255, 256}}
\* The inputs of the two tests, "0-0:96.7.21()" and "255-255:0.1.0.18()",
\* and a code with leading zeros, "000-0:096.7.21()" CRLF.
ObisTests ==
  {Feed("obis", NoTelegram, NoTelegram, 0, <<0, 0, 96, 7, 21>>, 0,
        <<48, 45, 48, 58, 57, 54, 46, 55, 46, 50, 49, 40, 41>>),
   Feed("obis", NoTelegram, NoTelegram, 0, <<255, 255, 0, 1, 0, 18>>, 0,
        <<50, 53, 53, 45, 50, 53, 53, 58, 48, 46, 49, 46, 48, 46, 49, 56, 40, 41>>),
   Feed("obis", NoTelegram, NoTelegram, 0, <<0, 0, 96, 7, 21>>, 0,
        <<48, 48, 48, 45, 48, 58, 48, 57, 54, 46, 55, 46, 50, 49, 40, 41, 13, 10>>)}
ObisFeeds ==
  {Feed("obis", NoTelegram, NoTelegram, 0, c, 0, ObisText(c) \o <<40, 41>> \o CRLF) :
     c \in ObisCodes} \cup ObisTests

\* Fixed-point fields of the wired widths: 6 digits of "0" and "9", ".",
\* 3 such digits; 2 digits of "0", "4" and "9", ".", 3 such digits; each
\* alone or followed by the unit "*kW"; and "004436.791*kWh". extra is
\* the digits of the field, cut and elen the widths.
FixedField(whole, frac, unit) ==
  Feed("fixed", NoTelegram, NoTelegram, Len(whole), whole \o frac, Len(frac),
       whole \o <<46>> \o frac \o unit)
FixedFeeds ==
  {FixedField(w, f, u) :
     w \in [1..6 -> {48, 57}], f \in [1..3 -> {48, 57}], u \in {<<>>}}
    \cup {FixedField(w, f, u) :
            w \in [1..2 -> {48, 52, 57}], f \in [1..3 -> {48, 52, 57}],
            u \in {<<>>, <<42, 107, 87>>}}
    \cup {FixedField(<<48, 48, 52, 52, 51, 54>>, <<55, 57, 49>>, <<42, 107, 87, 104>>),
          FixedField(<<48, 48>>, <<51, 50, 57>>, <<>>)}

\* Data lines of n fields "(A)", "(B)", ..: "0-1:24.2.1" or "1-3:0.2.8" and
\* the fields, CRLF, for n from none to two more than a line may hold; t is
\* the telegram that holds the line, cut is n.
FieldsLine(code, n) ==
  code \o Flatten([k \in 1..n |-> <<40, 64 + k, 41>>]) \o CRLF
FieldsFeeds ==
  {Feed("fields", MkTelegram(<<88, 77, 88>>, <<FieldsLine(code, n)>>, FALSE),
        NoTelegram, n, code, 0, FieldsLine(code, n)) :
     code \in {<<48, 45, 49, 58, 50, 52, 46, 50, 46, 49>>,
               <<49, 45, 48, 58, 57, 57, 46, 57, 55, 46, 48>>},
     n \in {0, 1, 2, MAX_COSEM_PER_LINE - 1, MAX_COSEM_PER_LINE,
            MAX_COSEM_PER_LINE + 1, MAX_COSEM_PER_LINE + 2}}

\* Timestamp fields: six two-digit groups of 00 and 99 and a marker
\* "S", "W", "X", "s" or "1", or no marker (cut = 0); and the field of
\* EXAMPLE_TELEGRAM, "200208153516W". extra is the six group values, cut
\* the marker.
TwoDigits(v) == <<48 + (v \div 10), 48 + (v % 10)>>
StampField(g, m) ==
  Feed("timestamp", NoTelegram, NoTelegram, m, g, 0,
       Flatten([k \in 1..6 |-> TwoDigits(g[k])]) \o (IF m = 0 THEN <<>> ELSE <<m>>))
StampFeeds ==
  {StampField(g, m) : g \in [1..6 -> {0, 99}], m \in {83, 87, 88, 115, 49, 0}}
    \cup {StampField(<<20, 2, 8, 15, 35, 16>>, 87)}

\* Buffers given to parse more than once, and the other buffers parsed in
\* between: a telegram, the same with another trailer value, a byte that
\* is not UTF-8, the start of a header, and a letter.
OtherBuffers ==
  {MkTelegram(<<88, 77, 88>>, <<LinePool[1]>>, FALSE).bytes,
   Body(<<88, 77, 88>>, <<LinePool[1]>>) \o <<33, 48, 48, 48, 48>> \o CRLF,
   <<255>>, <<47, 88>>, <<65>>}
AgainBuffers ==
  {f.input : f \in PairFeeds \cup TruncatedFeeds \cup ExampleFeeds}
    \cup {t.bytes : t \in Damaged}
    \cup OtherBuffers
AgainFeeds ==
  {Feed("again", NoTelegram, NoTelegram, 0, o, 0, b) :
     b \in AgainBuffers, o \in OtherBuffers}

DecoderFeeds ==
  {Feed("crc", NoTelegram, NoTelegram, 0, <<>>, 0, x) : x \in TrailerTexts}
    \cup ObisFeeds \cup FixedFeeds \cup FieldsFeeds \cup StampFeeds
    \cup AgainFeeds

DecoderInit ==
  /\ feed \in DecoderFeeds
  /\ buf = feed.input
  /\ out = <<>>
  /\ pc = "decode"
  /\ json = <<>>
  /\ wire = <<>>
  /\ acc = 0

\* let res = crc("!FE01\r\n");
DecodeCrc ==
  /\ pc = "decode"
  /\ feed.fam = "crc"
  /\ out' = <<crc(buf, 1)>>
  /\ pc' = "decoded"
  /\ UNCHANGED <<feed, buf, json, wire, acc>>

\* let res = obis_code("0-0:96.7.21()");
DecodeObis ==
  /\ pc = "decode"
  /\ feed.fam = "obis"
  /\ out' = <<obis_code(buf, 1)>>
  /\ pc' = "decoded"
  /\ UNCHANGED <<feed, buf, json, wire, acc>>

\* let res = line("1-3:0.2.8(42)\r\n"): the same text as a data line.
DecodeLine ==
  /\ pc = "decoded"
  /\ feed.fam = "obis"
  /\ out' = Append(out, line(buf, 1))
  /\ pc' = "done"
  /\ UNCHANGED <<feed, buf, json, wire, acc>>

\* map_cosem(raw.cosem.get(0), fixed_point(6, 3)): the decoder on the field.
DecodeFixed ==
  /\ pc = "decode"
  /\ feed.fam = "fixed"
  /\ out' = <<fixed_point(feed.cut, feed.elen, buf, 1)>>
  /\ pc' = "decoded"
  /\ UNCHANGED <<feed, buf, json, wire, acc>>

\* let res = raw_line("0-1:24.2.1(101209110000W)(12785.123*m3)\r\n");
DecodeRawLine ==
  /\ pc = "decode"
  /\ feed.fam = "fields"
  /\ out' = <<raw_line(buf, 1)>>
  /\ pc' = "decoded"
  /\ UNCHANGED <<feed, buf, json, wire, acc>>

\* let (read, res) = parse(..): the telegram that holds the line.
DecodeTelegram ==
  /\ pc = "decoded"
  /\ feed.fam = "fields"
  /\ out' = Append(out, parse(feed.t.bytes))
  /\ pc' = "done"
  /\ UNCHANGED <<feed, buf, json, wire, acc>>

\* map_cosem(raw.cosem.get(0), timestamp): the decoder on the field.
DecodeTimestamp ==
  /\ pc = "decode"
  /\ feed.fam = "timestamp"
  /\ out' = <<timestamp(buf, 1)>>
  /\ pc' = "decoded"
  /\ UNCHANGED <<feed, buf, json, wire, acc>>

\* serialize of a telegram whose only line is Line::Timestamp(ts).
WriteTimestamp ==
  /\ pc = "decoded"
  /\ feed.fam = "timestamp"
  /\ out[1].st = "Ok"
  /\ json' = serialize(<<[LineOf("Timestamp", 0, 0) EXCEPT !.ts = out[1].val]>>)
  /\ pc' = "done"
  /\ UNCHANGED <<feed, buf, out, wire, acc>>

\* Three calls in a row (tests::incomplete_telegram_err_incomplete calls
\* parse in a loop): on the buffer, on another buffer, and on the first
\* buffer again; a panic ends the program.
Reparse ==
  /\ pc = "decode"
  /\ feed.fam = "again"
  /\ out' = Append(out, parse(IF Len(out) = 1 THEN feed.extra ELSE feed.input))
  /\ pc' = IF out'[Len(out')].kind = "Panic" THEN "aborted"
           ELSE IF Len(out') = 3 THEN "done" ELSE "decode"
  /\ UNCHANGED <<feed, buf, json, wire, acc>>

DecoderNext ==
  \/ DecodeCrc \/ DecodeObis \/ DecodeLine \/ DecodeFixed
  \/ DecodeRawLine \/ DecodeTelegram \/ DecodeTimestamp \/ WriteTimestamp
  \/ Reparse

DecoderSpec == DecoderInit /\ [][DecoderNext]_vars

(***************************************************************************)
(* A caller that appends the bytes that arrive to its buffer and parses    *)
(* again while parse returns Incomplete (the Incomplete arm of the main    *)
(* loop, main.rs:142).                                                     *)
(***************************************************************************)

\* Most times the caller appends bytes to one buffer.
MaxAppends == 1

\* Buffers: every proper prefix of a telegram (extra is the rest of the
\* telegram), and the complete telegrams of MalformedFeeds.
StreamFeeds ==
  UNION {{Feed("stream", t, NoTelegram, k, From(t.bytes, k + 1), 0,
               SubSeq(t.bytes, 1, k)) : k \in 0..(Len(t.bytes) - 1)} :
           t \in FewTelegrams}
    \cup {Feed("stream", f.t, NoTelegram, Len(f.input), <<>>, 0, f.input) :
            f \in MalformedFeeds}

\* Text that may arrive next: "A", ")", "0", CRLF, a blank line, a trailer,
\* the end of a field, of its line and a trailer, and a whole telegram.
TextTails ==
  {<<65>>, <<41>>, <<48>>, CRLF, CRLF \o CRLF, <<33, 48, 48, 48, 48>> \o CRLF,
   <<41>> \o CRLF \o <<33, 48, 48, 48, 48>> \o CRLF,
   MkTelegram(<<88, 77, 88>>, <<LinePool[1]>>, FALSE).bytes}
\* What may arrive after the buffer of feed f: the rest of its telegram, text,
\* or a byte that no UTF-8 text holds.
Arriving(f) == TextTails \cup {f.extra, <<255>>}

StreamInit ==
  /\ feed \in StreamFeeds
  /\ buf = feed.input
  /\ out = <<>>
  /\ pc = "parse"
  /\ json = <<>>
  /\ wire = <<>>
  /\ acc = 0

\* The pass of the loop from parse on: let (read, res) =
\* dsmr42::parse(dsmr_uart.get_buffer()), the match on res, which clears the
\* buffer on every error but Incomplete, and consume(read). A panic ends
\* the program.
StreamParse ==
  /\ pc = "parse"
  /\ out' = Append(out, parse(buf))
  /\ pc' = IF out'[Len(out')].kind = "Panic" THEN "aborted"
           ELSE IF out'[Len(out')].kind = "Incomplete" THEN "append"
           ELSE "done"
  /\ buf' = IF out'[Len(out')].kind = "Panic" THEN buf
            ELSE Consumed(out'[Len(out')], Matched(out'[Len(out')], buf))
  /\ UNCHANGED <<feed, json, wire, acc>>

\* Err(dsmr42::TelegramParseError::Incomplete) => {}: the buffer is kept, and
\* the next poll appends what has arrived.
StreamAppend ==
  /\ pc = "append"
  /\ Len(out) <= MaxAppends
  /\ \E s \in Arriving(feed) \ {<<>>} : buf' = buf \o s
  /\ pc' = "parse"
  /\ UNCHANGED <<feed, out, json, wire, acc>>

StreamNext == StreamParse \/ StreamAppend

StreamSpec == StreamInit /\ [][StreamNext]_vars

(***************************************************************************)
(* The MQTT client (meter-reader/src/mqtt.rs) polled by the main loop:     *)
(* acc is the MqttClient, wire the TCP socket it is polled with, out the   *)
(* packets of the current TCP session, json the telegrams handed to        *)
(* send_telegram, buf the polls waited between consecutive connect         *)
(* attempts, feed the counters of the run: the value the backoff was armed *)
(* with at the last attempt, the polls made with the socket inactive since *)
(* that attempt (idle) and those of them made in this run (seen).          *)
(***************************************************************************)

INITIAL_BACKOFF == 1000
BACKOFF_CAP == 400000

\* Most polls left of the wait a run starts in.
MaxTicks == 2
\* Most waits between connect attempts that are recorded.
MaxWaits == 10
\* Most polls of one wait that are made in a run.
MaxPolls == 1002
\* Most telegrams the main loop queues.
MaxTelegrams == 2
\* Most packets the socket holds unread.
MaxRx == 1

\* MqttClient::new(); queued_telegram is 0 for None, else the telegram's
\* number.
NewClient ==
  [connected |-> FALSE, next_backoff |-> INITIAL_BACKOFF, current_backoff |-> 0,
   mqtt_state |-> "Unconnected", queued_telegram |-> 0]

\* The socket: its TCP state, the packets received and not yet read, and the
\* room in its transmit buffer (free, tight: not full but too small for the
\* next packet, or full).
NewSocket == [state |-> "Closed", rx |-> <<>>, room |-> "free"]

\* What the socket answers to the calls of poll.
may_send(s) == s.state \in {"Established", "CloseWait"}
is_active(s) == s.state # "Closed"
can_recv(s) == s.state \in {"Established", "CloseWait"} /\ s.rx # <<>>
can_send(s) == may_send(s) /\ s.room # "full"

\* What the broker may send: packets, the front of a packet, and bytes that
\* do not decode.
Packets == {"ConnackAccepted", "ConnackRefused", "Pingresp", "Publish"}
FromBroker == Packets \cup {"Partial", "Garbage"}

\* The first if / else if of poll.
Observed_keeping_state(c, s) ==
  IF may_send(s) /\ ~c.connected
  THEN [c EXCEPT !.connected = TRUE, !.next_backoff = INITIAL_BACKOFF,
                 !.current_backoff = 0]
  ELSE IF ~is_active(s) /\ c.connected
  THEN [c EXCEPT !.connected = FALSE]
  ELSE c
Observed(c, s) ==
  IF may_send(s) /\ ~c.connected
  THEN [c EXCEPT !.connected = TRUE, !.next_backoff = INITIAL_BACKOFF,
                 !.current_backoff = 0]
  ELSE IF ~is_active(s) /\ c.connected
  THEN [c EXCEPT !.connected = FALSE, !.mqtt_state = "Unconnected"]
  ELSE c

invalid_packet(c) == [c EXCEPT !.mqtt_state = "Invalid"]

handle_connack(c, pkt) ==
  IF c.mqtt_state # "Connecting" THEN [c EXCEPT !.mqtt_state = "Invalid"]
  ELSE IF pkt = "ConnackAccepted" THEN [c EXCEPT !.mqtt_state = "Connected"]
  ELSE [c EXCEPT !.mqtt_state = "Invalid"]

handle_packet_tolerant(c, pkt) ==
  IF pkt \in {"ConnackAccepted", "ConnackRefused"} THEN handle_connack(c, pkt)
  ELSE c
handle_packet(c, pkt) ==
  IF pkt \in {"ConnackAccepted", "ConnackRefused"} THEN handle_connack(c, pkt)
  ELSE IF pkt = "Pingresp" THEN c
  ELSE invalid_packet(c)

\* The state of a poll between its steps: the client, the socket, the
\* packets of the session and the telegrams handed to send_telegram.
World(c, s, sent, handed) == [c |-> c, s |-> s, sent |-> sent, handed |-> handed]

\* if socket.can_recv() { socket.recv(...) }: a complete packet is taken and
\* handled, the front of a packet is left, bytes that do not decode are
\* dropped, all of them.
Recv(w) ==
  IF ~can_recv(w.s) THEN w
  ELSE IF w.s.rx[1] = "Partial" THEN w
  ELSE IF w.s.rx[1] = "Garbage" THEN [w EXCEPT !.s.rx = <<>>]
  ELSE LET c2 == handle_packet(w.c, w.s.rx[1]) IN
       [w EXCEPT !.s.rx = Tail(w.s.rx), !.c = c2,
          !.sent = IF w.c.mqtt_state # "Connected" /\ c2.mqtt_state = "Connected"
                   THEN Append(w.sent, "CONNACK") ELSE w.sent]

\* send_packet: the packet is written to the socket if the buffer has room
\* for it.
send_packet(w, pkt) ==
  IF w.s.room = "free" THEN [w EXCEPT !.sent = Append(w.sent, pkt)] ELSE w

\* if socket.can_send() { match self.mqtt_state { ... } }
Send_keeping_telegram(w) ==
  IF ~can_send(w.s) THEN w
  ELSE IF w.c.mqtt_state = "Unconnected"
  THEN send_packet([w EXCEPT !.c.mqtt_state = "Connecting"], "CONNECT")
  ELSE IF w.c.mqtt_state = "Connected"
  THEN [send_packet(w, "STATUS") EXCEPT !.c.mqtt_state = "Ready"]
  ELSE IF w.c.mqtt_state = "Ready" /\ w.c.queued_telegram # 0
  THEN send_packet([w EXCEPT !.handed = Append(w.handed, w.c.queued_telegram)],
                   "USAGE")
  ELSE w
Send(w) ==
  IF ~can_send(w.s) THEN w
  ELSE IF w.c.mqtt_state = "Unconnected"
  THEN send_packet([w EXCEPT !.c.mqtt_state = "Connecting"], "CONNECT")
  ELSE IF w.c.mqtt_state = "Connected"
  THEN [send_packet(w, "STATUS") EXCEPT !.c.mqtt_state = "Ready"]
  ELSE IF w.c.mqtt_state = "Ready" /\ w.c.queued_telegram # 0
  THEN send_packet([w EXCEPT !.c.queued_telegram = 0,
                             !.handed = Append(w.handed, w.c.queued_telegram)],
                   "USAGE")
  ELSE w

\* try_connect past its early return: the backoff is armed and doubled.
Armed_without_cap(c) ==
  [c EXCEPT !.current_backoff = c.next_backoff,
            !.next_backoff = c.next_backoff * 2]
Armed(c) ==
  [c EXCEPT !.current_backoff = c.next_backoff,
            !.next_backoff = Min(c.next_backoff * 2, BACKOFF_CAP)]

\* The i-th wait of a row of failed connect attempts.
Wait(i) == Min(INITIAL_BACKOFF * Pow2(i - 1), BACKOFF_CAP)

\* The client after k connect attempts in a row that failed, with left polls
\* of the last wait to go.
Waiting(k, left) ==
  [NewClient EXCEPT !.current_backoff = left, !.next_backoff = Wait(k + 1)]

\* A run starts with the new client, or late in the wait after 1 to MaxWaits
\* failed attempts since the start of the program.
MqttInit ==
  /\ wire = NewSocket
  /\ out = <<>>
  /\ json = <<>>
  /\ pc = "poll"
  /\ \/ /\ acc = NewClient
        /\ feed = [fam |-> "mqtt", armed |-> 0, idle |-> 0, seen |-> 0,
                   failed |-> FALSE, telegrams |-> 0]
        /\ buf = <<>>
     \/ \E k \in 1..MaxWaits, left \in 0..MaxTicks :
          /\ acc = Waiting(k, left)
          /\ feed = [fam |-> "mqtt", armed |-> Wait(k), idle |-> Wait(k) - left,
                     seen |-> 0, failed |-> TRUE, telegrams |-> 0]
          /\ buf = [i \in 1..(k - 1) |-> Wait(i)]

\* A poll with the socket active: the packet received is handled, then one
\* packet is sent.
PollActive ==
  /\ is_active(wire)
  /\ LET w == Send(Recv(World(Observed(acc, wire), wire, out, json))) IN
       /\ acc' = w.c
       /\ wire' = w.s
       /\ out' = w.sent
       /\ json' = w.handed
  /\ feed' = IF may_send(wire) /\ ~acc.connected
             THEN [feed EXCEPT !.armed = 0, !.idle = 0, !.seen = 0, !.failed = FALSE]
             ELSE feed
  /\ buf' = IF may_send(wire) /\ ~acc.connected THEN <<>> ELSE buf
  /\ UNCHANGED pc

\* A poll with the socket inactive and the backoff running: try_connect
\* counts one poll down and returns.
PollBackoff ==
  /\ ~is_active(wire)
  /\ Observed(acc, wire).current_backoff > 0
  /\ feed.seen < MaxPolls
  /\ acc' = [Observed(acc, wire) EXCEPT !.current_backoff = @ - 1]
  /\ feed' = [feed EXCEPT !.idle = @ + 1, !.seen = @ + 1]
  /\ UNCHANGED <<wire, out, json, buf, pc>>

\* A poll with the socket inactive and no backoff left: try_connect arms the
\* backoff and calls socket.connect, which opens a new TCP session or fails.
PollConnect ==
  /\ ~is_active(wire)
  /\ Observed(acc, wire).current_backoff = 0
  /\ Len(buf) < MaxWaits
  /\ acc' = Armed(Observed(acc, wire))
  /\ \E opened \in BOOLEAN :
       /\ wire' = IF opened THEN [NewSocket EXCEPT !.state = "SynSent"] ELSE wire
       /\ out' = IF opened THEN <<>> ELSE out
  /\ buf' = IF feed.failed THEN Append(buf, feed.idle) ELSE buf
  /\ feed' = [feed EXCEPT !.armed = acc'.current_backoff, !.idle = 0, !.seen = 0,
                          !.failed = TRUE]
  /\ UNCHANGED <<json, pc>>

\* client.queue_telegram(telegram) in the main loop.
QueueTelegram ==
  /\ feed.telegrams < MaxTelegrams
  /\ acc' = [acc EXCEPT !.queued_telegram = feed.telegrams + 1]
  /\ feed' = [feed EXCEPT !.telegrams = @ + 1]
  /\ UNCHANGED <<wire, out, json, buf, pc>>

\* The network between two polls: the handshake completes or fails,
NetEstablish ==
  /\ wire.state = "SynSent"
  /\ wire' = [wire EXCEPT !.state = "Established"]
  /\ UNCHANGED <<feed, acc, out, json, buf, pc>>

\* the session is reset or times out,
NetDrop ==
  /\ is_active(wire)
  /\ wire' = NewSocket
  /\ UNCHANGED <<feed, acc, out, json, buf, pc>>

\* the broker closes its side,
NetPeerClose ==
  /\ wire.state = "Established"
  /\ wire' = [wire EXCEPT !.state = "CloseWait"]
  /\ UNCHANGED <<feed, acc, out, json, buf, pc>>

\* The last bytes received are the front of a packet.
Pending(s) == s.rx # <<>> /\ s.rx[Len(s.rx)] = "Partial"

\* bytes of the broker arrive,
NetDeliver ==
  /\ wire.state = "Established"
  /\ \/ /\ Len(wire.rx) < MaxRx
        /\ ~Pending(wire)
        /\ \E p \in FromBroker : wire' = [wire EXCEPT !.rx = Append(@, p)]
     \/ /\ Pending(wire)
        /\ \E p \in FromBroker \ {"Partial"} :
             wire' = [wire EXCEPT !.rx[Len(wire.rx)] = p]
  /\ UNCHANGED <<feed, acc, out, json, buf, pc>>

\* and the transmit buffer fills with unacknowledged publishes and drains.
NetRoom ==
  /\ may_send(wire)
  /\ \E i \in 1..Len(out) : out[i] = "USAGE"
  /\ \E r \in {"free", "tight", "full"} \ {wire.room} : wire' = [wire EXCEPT !.room = r]
  /\ UNCHANGED <<feed, acc, out, json, buf, pc>>

MqttNext ==
  \/ PollActive \/ PollBackoff \/ PollConnect
  \/ QueueTelegram
  \/ NetEstablish \/ NetDrop \/ NetPeerClose \/ NetDeliver \/ NetRoom

MqttSpec == MqttInit /\ [][MqttNext]_vars

(***************************************************************************)
(* The DMA receive of src/uart.rs: main runs init and then poll again and  *)
(* again, one step at a time (pc is its position, buf its local rx_buffer, *)
(* json the bytes in process_buffer, out the bytes logged), and the        *)
(* DMA7_DMA23 handler runs between any two steps. wire holds the statics   *)
(* RX_BUFFER and RX_READY, the state of the DMA transfer, the bytes it has *)
(* received and the number of bytes sent by the meter so far.              *)
(* The bytes on the line are "A" and the two bytes of U+00E9, which are    *)
(* text together and not text apart.                                       *)
(***************************************************************************)

\* Most bytes the UART receives.
MaxBytes == 4
\* Most bytes of one DMA transfer.
MaxChunk == 2

\* The bytes the UART may receive: "A", 0xC3 and 0xA9.
LineBytes == {65, 195, 169}

\* Option<dma::Circular<u8>>: None, or a buffer holding data.
None == [some |-> FALSE, data |-> <<>>]
Some(data) == [some |-> TRUE, data |-> data]

DmaInit ==
  /\ feed = [fam |-> "dma"]
  /\ wire = [RX_BUFFER |-> None, RX_READY |-> FALSE, dma |-> "idle",
             data |-> <<>>, sent |-> 0]
  /\ pc = "init_store"
  /\ buf = None
  /\ json = <<>>
  /\ out = <<>>
  /\ acc = 0

\* init: free(|cs| *RX_BUFFER.borrow(cs).borrow_mut() = Some(rx_buffer))
InitStore ==
  /\ pc = "init_store"
  /\ wire' = [wire EXCEPT !.RX_BUFFER = Some(<<>>)]
  /\ pc' = "init_take"
  /\ UNCHANGED <<feed, buf, json, out, acc>>

\* init: free(|cs| RX_BUFFER.borrow(cs).borrow_mut().take()), halting on None
InitTake ==
  /\ pc = "init_take"
  /\ buf' = wire.RX_BUFFER
  /\ wire' = [wire EXCEPT !.RX_BUFFER = None]
  /\ pc' = IF wire.RX_BUFFER.some THEN "init_start" ELSE "halted"
  /\ UNCHANGED <<feed, json, out, acc>>

\* start_receive(rx_buffer): the buffer goes to the DMA channel; an error,
\* when a transfer is already active, halts.
start_receive(next) ==
  IF wire.dma = "idle"
  THEN /\ wire' = [wire EXCEPT !.dma = "receiving", !.data = <<>>]
       /\ pc' = next
  ELSE /\ pc' = "halted"
       /\ UNCHANGED wire

\* init: rx_buffer.reserve(RX_RESERV); dma_uart.start_receive(rx_buffer)
InitStart ==
  /\ pc = "init_start"
  /\ start_receive("init_ready")
  /\ buf' = None
  /\ UNCHANGED <<feed, json, out, acc>>

\* init: RX_READY.store(false, Ordering::Release)
InitReady ==
  /\ pc = "init_ready"
  /\ wire' = [wire EXCEPT !.RX_READY = FALSE]
  /\ pc' = "poll"
  /\ UNCHANGED <<feed, buf, json, out, acc>>

\* poll: if RX_READY.load(Ordering::Acquire); with RX_READY false and
\* pos = 0 the call does nothing.
PollLoad ==
  /\ pc = "poll"
  /\ wire.RX_READY
  /\ pc' = "poll_clear"
  /\ UNCHANGED <<feed, wire, buf, json, out, acc>>

\* poll: RX_READY.store(false, Ordering::Release)
PollClear ==
  /\ pc = "poll_clear"
  /\ wire' = [wire EXCEPT !.RX_READY = FALSE]
  /\ pc' = "poll_take"
  /\ UNCHANGED <<feed, buf, json, out, acc>>

\* poll: free(|cs| RX_BUFFER.borrow(cs).borrow_mut().take()), halting on None
PollTake ==
  /\ pc = "poll_take"
  /\ buf' = wire.RX_BUFFER
  /\ wire' = [wire EXCEPT !.RX_BUFFER = None]
  /\ pc' = IF wire.RX_BUFFER.some THEN "poll_drain" ELSE "halted"
  /\ UNCHANGED <<feed, json, out, acc>>

\* poll: for i in 0..len { process_buffer[i + *pos] = rx_buffer.pop() }
PollDrain ==
  /\ pc = "poll_drain"
  /\ json' = json \o buf.data
  /\ buf' = Some(<<>>)
  /\ pc' = "poll_restart"
  /\ UNCHANGED <<feed, wire, out, acc>>

\* poll: free(|_| DMA_PERIPHERAL.as_mut().unwrap().start_receive(rx_buffer))
PollRestart ==
  /\ pc = "poll_restart"
  /\ start_receive("poll_log")
  /\ buf' = None
  /\ UNCHANGED <<feed, json, out, acc>>

\* poll: if *pos > 0 { log::debug!(.., core::str::from_utf8(b).unwrap());
\* *pos = 0 }: the unwrap panics on bytes that are not UTF-8, and the
\* program halts.
PollLog ==
  /\ pc = "poll_log"
  /\ IF json = <<>> THEN pc' = "poll" /\ UNCHANGED <<json, out>>
     ELSE IF from_utf8(json).valid
     THEN /\ out' = out \o json
          /\ json' = <<>>
          /\ pc' = "poll"
     ELSE /\ pc' = "halted"
          /\ UNCHANGED <<json, out>>
  /\ UNCHANGED <<feed, wire, buf, acc>>

\* The DMA channel moves the next bytes of the meter into the buffer and
\* raises its interrupt.
DmaComplete ==
  /\ wire.dma = "receiving"
  /\ \E n \in 1..MaxChunk :
       /\ wire.sent + n <= MaxBytes
       /\ \E bytes \in [1..n -> LineBytes] :
            wire' = [wire EXCEPT !.dma = "complete", !.sent = @ + n, !.data = bytes]
  /\ UNCHANGED <<feed, pc, buf, json, out, acc>>

\* The handler DMA7_DMA23: *rx_buffer = uart.receive_complete();
\* RX_READY.store(true, Ordering::Release). It runs between two steps of main.
DMA7_DMA23 ==
  /\ wire.dma = "complete"
  /\ wire' = [wire EXCEPT !.dma = "idle", !.RX_BUFFER = Some(wire.data),
                !.data = <<>>, !.RX_READY = TRUE]
  /\ UNCHANGED <<feed, pc, buf, json, out, acc>>

DmaNext ==
  \/ InitStore \/ InitTake \/ InitStart \/ InitReady
  \/ PollLoad \/ PollClear \/ PollTake \/ PollDrain \/ PollRestart \/ PollLog
  \/ DmaComplete \/ DMA7_DMA23

DmaSpec == DmaInit /\ [][DmaNext]_vars

(***************************************************************************)
(* Properties.                                                             *)
(***************************************************************************)

Called == Len(out) >= 1
First == out[1]
ResultKinds == {"Ok", "CrcMismatch", "InvalidUtf8", "Incomplete", "ParseError"}

\* C1: parse of a well-formed telegram alone in the buffer consumes all of
\* it and returns Ok with the telegram's device id and the value its trailer
\* declares.
RoundTrip ==
  (feed.fam = "whole" /\ Called) =>
    /\ First.kind = "Ok"
    /\ First.consumed = Len(feed.t.bytes)
    /\ First.device_id = feed.t.id
    /\ First.crc = feed.t.declared

RoundTripWitness ==
  /\ feed.fam = "whole" /\ Called
  /\ feed.t.id # <<>> /\ feed.t.nlines >= 2
  /\ \E k \in 1..4 : feed.t.digits[k] >= 97
  /\ First.kind = "Ok" /\ First.consumed = Len(feed.input)
  /\ Len(First.lines) = feed.t.nlines

\* C2: parse of a proper prefix of a well-formed telegram consumes nothing
\* and returns Incomplete.
IncompletePrefix ==
  (feed.fam = "prefix" /\ Called) =>
    First.kind = "Incomplete" /\ First.consumed = 0

IncompletePrefixWitness ==
  /\ feed.fam = "prefix" /\ Called
  /\ feed.t.nlines >= 1
  /\ feed.cut = Len(feed.t.bytes) - 1
  /\ First.kind = "Incomplete"

\* C3: on two well-formed telegrams back to back, the first call consumes
\* exactly the first telegram and returns Ok, and the call on the rest
\* consumes exactly the second and returns Ok.
BackToBack ==
  feed.fam = "pair" =>
    /\ Called => First.kind = "Ok" /\ First.consumed = Len(feed.t.bytes)
                   /\ First.device_id = feed.t.id
                   /\ Len(First.lines) = feed.t.nlines
    /\ Len(out) >= 2 =>
         /\ out[2].kind = "Ok" /\ out[2].consumed = Len(feed.t2.bytes)
         /\ Len(out[2].lines) = feed.t2.nlines
         /\ out[1].consumed + out[2].consumed = Len(feed.input)

BackToBackWitness ==
  /\ feed.fam = "pair" /\ Len(out) >= 2
  /\ feed.t.nlines = 1 /\ feed.t2.nlines = 1 /\ feed.t # feed.t2
  /\ out[2].kind = "Ok" /\ out[2].crc = feed.t2.sum

\* C4: every parse call returns, with Ok or one of the four errors.
NeverPanics == \A k \in 1..Len(out) : out[k].kind \in ResultKinds

\* C5: bytes that follow a complete well-formed telegram do not change the
\* result: the call returns what it returns on the telegram alone.
TrailingBytesIgnored ==
  (feed.fam = "extra" /\ Called) =>
    /\ First = parse(feed.t.bytes)
    /\ First.kind = "Ok" /\ First.consumed = Len(feed.t.bytes)

\* C6: input that ends inside a multi-byte UTF-8 sequence consumes nothing
\* and is reported as Incomplete.
TruncatedIsIncomplete ==
  (feed.fam = "truncated" /\ Called) =>
    First.kind = "Incomplete" /\ First.consumed = 0

\* C7: input with an invalid UTF-8 sequence is reported as InvalidUtf8 and
\* consumes the valid text before the sequence and the sequence itself, at
\* least one byte and no more than the input holds.
InvalidUtf8Consumed ==
  (feed.fam = "invalid" /\ Called) =>
    /\ First.kind = "InvalidUtf8"
    /\ First.consumed = feed.cut + feed.elen
    /\ First.consumed >= 1 /\ First.consumed <= Len(feed.input)

InvalidUtf8Witness ==
  /\ feed.fam = "invalid" /\ Called
  /\ feed.cut > 1 /\ feed.elen = 2 /\ Len(feed.input) > feed.cut + feed.elen + 1
  /\ First.kind = "InvalidUtf8" /\ First.consumed = feed.cut + 2

\* C8: a call that returns ParseError consumes exactly one byte.
ParseErrorConsumesOne ==
  \A k \in 1..Len(out) : out[k].kind = "ParseError" => out[k].consumed = 1

ParseErrorWitness ==
  /\ Called /\ First.kind = "ParseError" /\ First.consumed = 1
  /\ First.pos >= 10 /\ First.code = "CrLf"

\* C9: a telegram the framer accepts whose 4-digit trailer declares another
\* value than the computed CRC is reported as CrcMismatch carrying both, and
\* consumes the telegram through its final CRLF and nothing after it.
CrcMismatchConsumesTelegram ==
  /\ (feed.fam = "damaged" /\ Len(feed.t.digits) = 4 /\ Called) =>
       /\ First.kind = "CrcMismatch"
       /\ First.consumed = Len(feed.t.bytes)
       /\ First.calculated = feed.t.sum
       /\ First.read = feed.t.declared
  /\ \A k \in 1..Len(out) :
       out[k].kind = "CrcMismatch" => out[k].calculated # out[k].read

CrcMismatchWitness ==
  /\ feed.fam = "damaged" /\ Len(feed.t.digits) = 4 /\ Called
  /\ feed.extra # <<>> /\ feed.t.nlines = 1
  /\ \E k \in 1..4 : feed.t.digits[k] >= 97
  /\ First.kind = "CrcMismatch" /\ First.consumed = Len(feed.input) - Len(feed.extra)

\* The CRC a call computed: it is reported in a CrcMismatch, and equals the
\* declared value in an Ok.
Computed(r) == IF r.kind = "Ok" THEN r.crc ELSE r.calculated
Accepted == Called /\ feed.fam \in {"whole", "damaged"} /\ First.kind \in {"Ok", "CrcMismatch"}

\* C10, as claimed: the CRC is computed over the bytes from "/" through the
\* last data line, the trailer's "!" excluded.
CrcSpanExcludesBang == Accepted => Computed(First) = crc16(feed.t.body)

\* C10, amended: the CRC is computed over all bytes of the telegram but its
\* last 6; with a 4-digit trailer that is from "/" through the trailer's
\* "!", the 4 digits and the final CRLF excluded.
CrcSpanAllButLastSix ==
  Accepted =>
    /\ Computed(First) = crc16(SubSeq(feed.t.bytes, 1, Len(feed.t.bytes) - 6))
    /\ Len(feed.t.digits) = 4 => Computed(First) = crc16(feed.t.body \o <<33>>)

CrcSpanWitness ==
  /\ Accepted /\ First.kind = "Ok" /\ feed.t.nlines >= 1
  /\ First.crc = crc16(feed.t.body \o <<33>>) /\ First.crc # crc16(feed.t.body)

\* C11: a telegram with a 4-digit trailer is Ok exactly when the CRC of the
\* telegram without its last 6 bytes is the value the trailer declares; for
\* the example telegram that CRC is 0x6130, the whole telegram is consumed
\* and its first line is Version(42).
CrcDecides ==
  /\ (feed.fam \in {"whole", "damaged", "example"} /\ Len(feed.t.digits) = 4 /\ Called) =>
       /\ First.kind \in {"Ok", "CrcMismatch"}
       /\ First.kind = "Ok" <=>
            crc16(SubSeq(feed.t.bytes, 1, Len(feed.t.bytes) - 6)) = feed.t.declared
  /\ (feed.fam = "example" /\ Called) =>
       /\ crc16(SubSeq(feed.input, 1, Len(feed.input) - 6)) = 24880
       /\ First.kind = "Ok" /\ First.consumed = Len(feed.input)
       /\ First.crc = 24880
       /\ First.lines[1] = LineOf("Version", 0, 42)

CrcDecidesWitness ==
  /\ feed.fam = "example" /\ Called
  /\ First.kind = "Ok" /\ First.consumed = 582 /\ Len(First.lines) = 20
  /\ First.lines[1].tag = "Version" /\ First.lines[1].val = 42

\* C12, as claimed: with any single bit of the CRC-covered span inverted,
\* parse returns CrcMismatch with calculated # read.
BitFlipIsCrcMismatch ==
  (feed.fam = "flip" /\ Called) =>
    First.kind = "CrcMismatch" /\ First.calculated # First.read

\* C12, amended: with any single bit of the CRC-covered span inverted, parse
\* never returns Ok. Where the telegram is still framed the result is
\* CrcMismatch with calculated # read, read being the declared value, and
\* that is the case for the low 7 bits of every device id character;
\* elsewhere the result is InvalidUtf8, ParseError or Incomplete.
BitFlipNeverAccepted ==
  (feed.fam = "flip" /\ Called) =>
    /\ First.kind \in {"CrcMismatch", "InvalidUtf8", "ParseError", "Incomplete"}
    /\ First.kind = "CrcMismatch" =>
         /\ First.calculated # First.read
         /\ First.read = feed.t.declared
         /\ First.consumed = Len(feed.t.bytes)
    /\ (feed.cut \in 2..(Len(feed.t.id) + 1) /\ feed.elen < 7) =>
         First.kind = "CrcMismatch"
    /\ feed.elen = 7 => First.kind = "InvalidUtf8"

BitFlipWitness ==
  /\ feed.fam = "flip" /\ Called
  /\ feed.t.nlines = 1 /\ feed.cut > Len(feed.t.id) + 5
  /\ First.kind = "CrcMismatch" /\ First.calculated # feed.t.sum

\* The caller's loop has ended: a call panicked, or consumed nothing, or the
\* buffer has been consumed to its end.
Done ==
  \/ pc = "aborted"
  \/ pc = "advance" /\ out[Len(out)].consumed = 0
  \/ pc = "parse" /\ Called /\ buf = <<>>

\* C13: on noise followed by a well-formed telegram, the loop of parse and
\* drop of the consumed bytes returns Ok with that telegram before it ends.
Resynchronises ==
  (feed.fam = "resync" /\ Done) =>
    \E k \in 1..Len(out) :
      /\ out[k].kind = "Ok" /\ out[k].consumed = Len(feed.t.bytes)
      /\ out[k].device_id = feed.t.id /\ out[k].crc = feed.t.sum

\* C14: a telegram with 32 data lines is accepted with all its lines, one
\* with 33 is a ParseError of kind TooLarge that consumes one byte, and no
\* result holds more than 32 lines or fewer lines than its telegram has.
LineCountBound ==
  /\ (feed.fam = "long" /\ Called) =>
       IF feed.t.nlines <= MAX_LINES_PER_TELEGRAM
       THEN /\ First.kind = "Ok" /\ First.consumed = Len(feed.t.bytes)
            /\ Len(First.lines) = feed.t.nlines
       ELSE /\ First.kind = "ParseError" /\ First.code = "TooLarge"
            /\ First.consumed = 1 /\ First.lines = <<>>
  /\ \A k \in 1..Len(out) : Len(out[k].lines) <= MAX_LINES_PER_TELEGRAM
  /\ (feed.fam \in {"whole", "long", "example", "pair", "extra"} /\ Called
        /\ First.kind = "Ok") => Len(First.lines) = feed.t.nlines

LineCountWitness ==
  /\ feed.fam = "long" /\ Called
  /\ feed.t.nlines = MAX_LINES_PER_TELEGRAM + 1
  /\ First.kind = "ParseError" /\ First.code = "TooLarge"

\* C15: a data line whose OBIS code is in no arm of the dispatch decodes to
\* UnknownObis with the six group values of its code, whatever its fields
\* hold, and the lines after it and the trailer are decoded as usual.
UnknownObisTolerated ==
  (feed.fam = "unknown" /\ Called) =>
    /\ First.kind = "Ok" /\ First.consumed = Len(feed.input)
    /\ Len(First.lines) = 2
    /\ First.lines[feed.cut].tag = "UnknownObis"
    /\ First.lines[feed.cut].obis = feed.extra
    /\ First.lines[3 - feed.cut] = LineOf("Version", 0, 42)
    /\ First.crc = feed.t.sum

UnknownObisWitness ==
  /\ feed.fam = "unknown" /\ Called /\ feed.cut = 1
  /\ feed.extra = <<1, 0, 21, 7, 0, 254>>
  /\ First.kind = "Ok" /\ First.lines[1].obis = <<1, 0, 21, 7, 0, 254>>
  /\ First.lines[2].tag = "Version"

\* The number of commas in a text, and of lines that serialize writes.
Commas(text) == Cardinality({k \in 1..Len(text) : text[k] = 44})
Emitted(lines) == Cardinality({k \in 1..Len(lines) : lines[k].tag \notin Unwritten})

\* C16: serialize writes "{", the fields of the lines that have one with
\* exactly one comma between two consecutive fields, and "}": no comma
\* follows "{", none precedes "}", and no comma follows another.
CommaSeparated ==
  pc = "serialized" =>
    /\ Len(json) >= 2 /\ json[1] = 123 /\ json[Len(json)] = 125
    /\ json[2] # 44
    /\ json[Len(json) - 1] # 44
    /\ \A k \in 1..(Len(json) - 1) : ~(json[k] = 44 /\ json[k + 1] = 44)
    /\ Commas(json) = (IF Emitted(out[1].lines) = 0 THEN 0
                       ELSE Emitted(out[1].lines) - 1)

\* The bytes a pass of the main loop received.
Received == SubSeq(wire, 1, Len(wire) - Len(wire'))

\* C17: a pass of the main loop leaves in the receive buffer exactly the
\* bytes it held and received, without the first consumed of them, whatever
\* parse returned.
BufferAdvancedByConsumed ==
  [][(pc = "loop" /\ pc' = "loop" /\ Len(out') = Len(out) + 1) =>
       buf' = From(buf \o Received, out'[Len(out')].consumed + 1)]_vars

\* C18: a complete telegram in which the value of a known code is malformed
\* is a ParseError that consumes one byte, not Incomplete.
MalformedIsParseError ==
  (feed.fam = "malformed" /\ Called) =>
    First.kind = "ParseError" /\ First.consumed = 1

\* CRC-16/ARC by its definition, on the set of the bits that are 1 in the
\* 16-bit register: a byte is added into bits 0..7 modulo 2, then 8 times
\* the register moves one bit down and, when bit 0 fell out as 1, the
\* reflected polynomial x^16 + x^15 + x^2 + 1 (bits 15, 13 and 0) is added
\* modulo 2.
Bits(v) == {b \in 0..15 : (v \div Pow2(b)) % 2 = 1}
AddMod2(A, B) == (A \ B) \cup (B \ A)
ArcPoly == {0, 13, 15}
ArcRound(S) ==
  IF 0 \in S THEN AddMod2({b - 1 : b \in S \ {0}}, ArcPoly)
  ELSE {b - 1 : b \in S}
ArcByte(S, byte) ==
  ArcRound(ArcRound(ArcRound(ArcRound(
    ArcRound(ArcRound(ArcRound(ArcRound(AddMod2(S, Bits(byte))))))))))
RECURSIVE Arc(_)
Arc(data) ==
  IF data = <<>> THEN {}
  ELSE ArcByte(Arc(SubSeq(data, 1, Len(data) - 1)), data[Len(data)])

\* The bytes crc16 has taken.
Taken == SubSeq(feed.input, 1, Len(feed.input) - Len(buf))

\* C19: after every byte the state of crc16 is a 16-bit value, the
\* CRC-16/ARC of the bytes taken, and what crc16 returns for them; crc16 of
\* "123456789" is 0xBB3D.
Crc16IsArc ==
  /\ crc16(<<49, 50, 51, 52, 53, 54, 55, 56, 57>>) = 47933
  /\ pc = "crc" =>
       /\ acc \in 0..65535
       /\ Bits(acc) = Arc(Taken)
       /\ acc = crc16(Taken)
       /\ acc \div Pow2(16) = 0

Crc16Witness ==
  /\ pc = "crc" /\ buf = <<>>
  /\ feed.input = <<49, 50, 51, 52, 53, 54, 55, 56, 57>>
  /\ acc = 11 * 4096 + 11 * 256 + 3 * 16 + 13

\* C20: the framer stops at the first trailer with the lines read so far: a
\* telegram is returned with exactly its own lines, none when the trailer
\* follows the header, and a data line and a trailer that come after the
\* first trailer are left in the buffer.
TrailerFirst ==
  /\ (feed.fam = "whole" /\ Called) =>
       /\ First.kind = "Ok" /\ Len(First.lines) = feed.t.nlines
       /\ feed.t.nlines = 0 => First.lines = <<>> /\ First.consumed = Len(feed.input)
  /\ (feed.fam = "early" /\ Called) =>
       /\ First.kind = "Ok" /\ Len(First.lines) = feed.t.nlines
       /\ First.consumed = Len(feed.t.bytes) /\ First.crc = feed.t.sum
  /\ (feed.fam = "early" /\ pc = "parse" /\ Len(out) = 1) => buf = feed.extra

TrailerFirstWitness ==
  /\ feed.fam = "whole" /\ Called /\ feed.t.nlines = 0 /\ feed.t.id # <<>>
  /\ First.kind = "Ok" /\ First.lines = <<>> /\ First.consumed = Len(feed.input)
\* The value of a hex digit by its place among the digits "0".."9",
\* "A".."F" and "a".."f".
UpperHex == <<48, 49, 50, 51, 52, 53, 54, 55, 56, 57, 65, 66, 67, 68, 69, 70>>
LowerHex == <<48, 49, 50, 51, 52, 53, 54, 55, 56, 57, 97, 98, 99, 100, 101, 102>>
Nibble(c) == CHOOSE v \in 0..15 : UpperHex[v + 1] = c \/ LowerHex[v + 1] = c
Decoded1 == pc = "decoded" /\ Len(out) = 1

\* C21: the trailer "!" h0 h1 h2 h3 CRLF decodes to
\* h0 * 4096 + h1 * 256 + h2 * 16 + h3, most significant digit first, for
\* upper-case and lower-case digits alike, and the whole trailer is taken;
\* "!FE01" gives 65025 and "!FFFF" gives 65535.
TrailerValue ==
  (feed.fam = "crc" /\ Decoded1) =>
    /\ out[1].st = "Ok"
    /\ out[1].pos = Len(feed.input) + 1
    /\ out[1].val = Nibble(feed.input[2]) * 4096 + Nibble(feed.input[3]) * 256
                      + Nibble(feed.input[4]) * 16 + Nibble(feed.input[5])
    /\ feed.input = <<33, 70, 69, 48, 49, 13, 10>> => out[1].val = 65025
    /\ feed.input = <<33, 70, 70, 70, 70, 13, 10>> => out[1].val = 65535
    /\ feed.input = <<33, 102, 69, 48, 97, 13, 10>> => out[1].val = 65034
TrailerValueWitness ==
  /\ feed.fam = "crc" /\ Decoded1
  /\ feed.input = <<33, 70, 69, 48, 49, 13, 10>>
  /\ out[1] = Ok(8, 65025)

\* The Line values that the data lines of LinePool and of EXAMPLE_TELEGRAM
\* spell, written out by variant and value.
TimestampLine(y, mo, d, h, mi, s, dst) ==
  [tag |-> "Timestamp", key |-> 0, val |-> 0,
   ts |-> [year |-> y, month |-> mo, day |-> d, hour |-> h, minute |-> mi,
           second |-> s, dst |-> dst],
   obis |-> <<>>]
UnknownLine(o) ==
  [tag |-> "UnknownObis", key |-> 0, val |-> 0, ts |-> NoTimestamp, obis |-> o]
ValueLine(t, k, v) ==
  [tag |-> t, key |-> k, val |-> v, ts |-> NoTimestamp, obis |-> <<>>]
PoolLine ==
  <<ValueLine("Version", 0, 42), UnknownLine(<<0, 0, 96, 13, 1, 255>>),
    ValueLine("TotalConsuming", 0, 329),
    TimestampLine(2020, 2, 8, 15, 35, 16, FALSE)>>
ExampleLines ==
  <<ValueLine("Version", 0, 42), TimestampLine(2020, 2, 8, 15, 35, 16, FALSE),
    ValueLine("EquipmentId", 0, 0), ValueLine("Consumed", 1, 4436791),
    ValueLine("Produced", 1, 0), ValueLine("Consumed", 2, 4234483),
    ValueLine("Produced", 2, 0), ValueLine("ActiveTariff", 0, 1),
    ValueLine("TotalConsuming", 0, 329), ValueLine("TotalProducing", 0, 0),
    ValueLine("PowerFailures", 0, 2), ValueLine("LongPowerFailures", 0, 3),
    ValueLine("PowerFailureLog", 0, 0), ValueLine("VoltageSags", 0, 0),
    ValueLine("VoltageSwells", 0, 0), UnknownLine(<<0, 0, 96, 13, 1, 255>>),
    UnknownLine(<<0, 0, 96, 13, 0, 255>>), ValueLine("Current", 1, 2),
    ValueLine("Producing", 1, 329), ValueLine("Consuming", 1, 0)>>

\* C22: the lines of a returned telegram are the decodings of its data
\* lines, one Line per data line, in the order they appear before the
\* trailer.
LinesInOrder ==
  /\ (feed.fam = "whole" /\ Called) => First.kind = "Ok"
  /\ (feed.fam \in {"whole", "extra"} /\ Called /\ First.kind = "Ok") =>
       \A ix \in LineSeqs(MaxLines) :
          feed.t.body = Body(feed.t.id, Lines(ix)) =>
            First.lines = [k \in 1..Len(ix) |-> PoolLine[ix[k]]]
  /\ (feed.fam = "long" /\ Called /\ First.kind = "Ok") =>
       \A first \in 0..1 :
          feed.t.body = Body(feed.t.id, LongLines(feed.t.nlines, first)) =>
            First.lines =
              [k \in 1..feed.t.nlines |-> PoolLine[1 + ((k + first) % 2)]]
  /\ (feed.fam = "example" /\ Called) =>
       First.kind = "Ok" /\ First.lines = ExampleLines
  /\ (feed.fam = "pair" /\ Len(out) >= 2) =>
       /\ out[2].kind = "Ok"
       /\ \A ix \in LineSeqs(1) :
            feed.t2.body = Body(feed.t2.id, Lines(ix)) =>
              out[2].lines = [k \in 1..Len(ix) |-> PoolLine[ix[k]]]
LinesInOrderWitness ==
  /\ feed.fam = "whole" /\ Called
  /\ feed.t.body = Body(<<88, 77, 88>>, <<LinePool[4], LinePool[1]>>)
  /\ First.kind = "Ok"
  /\ First.lines = <<TimestampLine(2020, 2, 8, 15, 35, 16, FALSE),
                     ValueLine("Version", 0, 42)>>

\* The index of the first "(" of a text, and the six values an OBIS code of
\* 5 or 6 groups stands for.
FirstParen(text) == CHOOSE j \in 1..Len(text) :
                      text[j] = 40 /\ \A h \in 1..(j - 1) : text[h] # 40
SixGroups(code) == IF Len(code) = 5 THEN code \o <<255>> ELSE code

\* C23: obis_code on A-B:C.D.E or A-B:C.D.E.F followed by "(" yields the
\* six group values, with 255 for an absent F, and stops at the first "(";
\* a code with a group value above 255 is an error of the line.
ObisParsed ==
  (feed.fam = "obis" /\ Len(out) >= 1) =>
    IF \E k \in 1..5 : feed.extra[k] > 255
    THEN /\ out[1].st = "Error"
         /\ Len(out) = 2 => out[2].st = "Error"
    ELSE IF SixGroups(feed.extra)[6] > 255
    THEN Len(out) = 2 => out[2].st = "Error"
    ELSE /\ out[1].st = "Ok"
         /\ out[1].val = SixGroups(feed.extra)
         /\ out[1].pos = FirstParen(feed.input)
         /\ Len(out) = 2 => out[2].st # "Error" \/ out[2].kind # "MapRes"
ObisParsedWitness ==
  /\ feed.fam = "obis" /\ pc = "done"
  /\ feed.input = <<50, 53, 53, 45, 50, 53, 53, 58, 48, 46, 49, 46, 48, 46, 49,
                    56, 40, 41>>
  /\ out[1] = Ok(17, <<255, 255, 0, 1, 0, 18>>)

\* The number a string of decimal digits spells, read from its first digit.
RECURSIVE Spelled(_, _)
Spelled(n, d) == IF d = <<>> THEN n ELSE Spelled(10 * n + (Head(d) - 48), Tail(d))

\* C24: fixed_point of a field of `digits` digits, ".", `decimals` digits
\* returns integer * 10^decimals + fractional exactly, which is the number
\* that the digits spell without the point; for the widths (6,3) and (2,3)
\* it is at most 999999999, within a u32; "004436.791" gives 4436791 and
\* "00.329" gives 329.
FixedPointExact ==
  (feed.fam = "fixed" /\ Decoded1) =>
    /\ out[1].st = "Ok"
    /\ out[1].val = Spelled(0, feed.extra)
    /\ out[1].val >= 0 /\ out[1].val <= 999999999
    /\ out[1].pos = feed.cut + feed.elen + 2
    /\ feed.extra = <<48, 48, 52, 52, 51, 54, 55, 57, 49>> => out[1].val = 4436791
    /\ feed.extra = <<48, 48, 51, 50, 57>> => out[1].val = 329
    /\ feed.extra = <<57, 57, 57, 57, 57, 57, 57, 57, 57>> => out[1].val = 999999999
FixedPointWitness ==
  /\ feed.fam = "fixed" /\ Decoded1
  /\ feed.input = <<48, 48, 52, 52, 51, 54, 46, 55, 57, 49, 42, 107, 87, 104>>
  /\ out[1] = Ok(11, 4436791)

\* C25: a data line of up to 16 fields is accepted with all its fields kept
\* in order, and so is the telegram that holds it; a line of 17 or more
\* fields is a TooLarge error, which parse returns as a ParseError with
\* consumed = 1: no field is dropped silently.
CosemCountBound ==
  (feed.fam = "fields" /\ Len(out) >= 1) =>
    IF feed.cut <= 16
    THEN /\ out[1].st = "Ok"
         /\ out[1].val.cosem = [k \in 1..feed.cut |-> <<64 + k>>]
         /\ out[1].pos = Len(feed.input) + 1
         /\ Len(out) = 2 =>
              /\ out[2].kind = "Ok" /\ out[2].consumed = Len(feed.t.bytes)
              /\ Len(out[2].lines) = 1
    ELSE /\ out[1].st = "Error" /\ out[1].kind = "TooLarge"
         /\ Len(out) = 2 =>
              /\ out[2].kind = "ParseError" /\ out[2].code = "TooLarge"
              /\ out[2].consumed = 1 /\ out[2].lines = <<>>
CosemCountWitness ==
  /\ feed.fam = "fields" /\ pc = "done"
  /\ feed.cut = 17
  /\ out[1].st = "Error" /\ out[1].kind = "TooLarge"
  /\ out[2].kind = "ParseError" /\ out[2].consumed = 1

\* C26: a device id of at most 32 bytes is returned unchanged in the
\* telegram; a longer one makes parse return a ParseError of kind TooLarge
\* with consumed = 1; no result holds a shortened id.
DeviceIdBound ==
  /\ (feed.fam = "deviceid" /\ Called) =>
       IF Len(feed.t.id) <= 32
       THEN /\ First.kind = "Ok" /\ First.consumed = Len(feed.input)
            /\ First.device_id = feed.t.id
       ELSE /\ First.kind = "ParseError" /\ First.code = "TooLarge"
            /\ First.consumed = 1 /\ First.device_id = <<>>
  /\ (feed.fam \in {"whole", "example", "long", "deviceid"} /\ Called
        /\ First.kind = "Ok") => First.device_id = feed.t.id
  /\ \A k \in 1..Len(out) : Len(out[k].device_id) <= 32
DeviceIdWitness ==
  /\ feed.fam = "deviceid" /\ Called
  /\ Len(feed.t.id) = 33
  /\ First.kind = "ParseError" /\ First.code = "TooLarge" /\ First.consumed = 1

\* C27: a data line without a field whose OBIS code is in an arm of the
\* dispatch that decodes a value makes parse return a ParseError of kind
\* NonEmpty with consumed = 1; under the codes of EquipmentId and
\* PowerFailureLog the same line is accepted.
MissingFieldIsNonEmpty ==
  (feed.fam = "bare" /\ Called) =>
    IF feed.elen = 1
    THEN /\ First.kind = "ParseError" /\ First.code = "NonEmpty"
         /\ First.consumed = 1 /\ First.lines = <<>>
    ELSE /\ First.kind = "Ok" /\ First.consumed = Len(feed.input)
         /\ Len(First.lines) = feed.cut
         /\ First.lines[feed.cut].tag \in {"EquipmentId", "PowerFailureLog"}
MissingFieldWitness ==
  /\ feed.fam = "bare" /\ Called
  /\ feed.extra = <<49, 45, 48, 58, 49, 46, 55, 46, 48, 13, 10>>
  /\ First.kind = "ParseError" /\ First.code = "NonEmpty" /\ First.consumed = 1

\* The text of a timestamp field with groups g in a telegram's JSON:
\* {"timestamp": "20YY-MM-DDThh:mm:ss+0Z:00"}, Z being 2 in summer time.
StampJson(g, summer) ==
  <<123, 34, 116, 105, 109, 101, 115, 116, 97, 109, 112, 34, 58, 32, 34>>
    \o <<50, 48>> \o TwoDigits(g[1]) \o <<45>> \o TwoDigits(g[2]) \o <<45>>
    \o TwoDigits(g[3]) \o <<84>> \o TwoDigits(g[4]) \o <<58>> \o TwoDigits(g[5])
    \o <<58>> \o TwoDigits(g[6])
    \o <<43, 48, (IF summer THEN 50 ELSE 49), 58, 48, 48>> \o <<34, 125>>

\* C28: a field YYMMDDhhmmss followed by "S" or "W" decodes to the year
\* 2000 + YY, the other five groups as they are, and dst exactly for "S";
\* with another marker the field is an error; serialize writes the
\* timestamp as YYYY-MM-DDTHH:MM:SS followed by +02:00 when dst and +01:00
\* otherwise.
TimestampDecoded ==
  (feed.fam = "timestamp" /\ Len(out) >= 1) =>
    IF feed.cut \in {83, 87}
    THEN /\ out[1].st = "Ok"
         /\ out[1].val =
              [year |-> 2000 + feed.extra[1], month |-> feed.extra[2],
               day |-> feed.extra[3], hour |-> feed.extra[4],
               minute |-> feed.extra[5], second |-> feed.extra[6],
               dst |-> (feed.cut = 83)]
         /\ pc = "done" => json = StampJson(feed.extra, feed.cut = 83)
    ELSE /\ feed.cut # 0 => out[1].st = "Error"
         /\ pc # "done" /\ json = <<>>
TimestampWitness ==
  /\ feed.fam = "timestamp" /\ pc = "done"
  /\ feed.input = <<57, 57, 48, 48, 57, 57, 48, 48, 57, 57, 48, 48, 83>>
  /\ out[1].val.year = 2099 /\ out[1].val.dst
  /\ json = StampJson(<<99, 0, 99, 0, 99, 0>>, TRUE)

\* The key of every value-carrying variant, as listed: the fixed names,
\* tariff_<N>_consumed and tariff_<N>_produced with N in decimal, and
\* <phase>_current, <phase>_consuming, <phase>_producing with l1, l2, l3.
FixedKeys ==
    "Version" :> <<100, 115, 109, 114, 95, 118, 101, 114, 115, 105, 111, 110>>
    @@
    "Timestamp" :> <<116, 105, 109, 101, 115, 116, 97, 109, 112>>
    @@
    "ActiveTariff" :> <<97, 99, 116, 105, 118, 101, 95, 116, 97, 114, 105, 102, 102>>
    @@
    "TotalConsuming" :> <<116, 111, 116, 97, 108, 95, 99, 111, 110, 115, 117, 109, 105, 110, 103>>
    @@
    "TotalProducing" :> <<116, 111, 116, 97, 108, 95, 112, 114, 111, 100, 117, 99, 105, 110, 103>>
    @@
    "PowerFailures" :> <<112, 111, 119, 101, 114, 95, 102, 97, 105, 108, 117, 114, 101, 115>>
    @@
    "LongPowerFailures" :> <<108, 111, 110, 103, 95, 112, 111, 119, 101, 114, 95, 102, 97, 105, 108, 117, 114, 101, 115>>
    @@
    "VoltageSags" :> <<118, 111, 108, 116, 97, 103, 101, 95, 115, 97, 103, 115>>
    @@
    "VoltageSwells" :> <<118, 111, 108, 116, 97, 103, 101, 95, 115, 119, 101, 108, 108, 115>>
TariffNumber == 1 :> <<49>> @@ 2 :> <<50>> @@ 255 :> <<50, 53, 53>>
PhaseName == 1 :> <<108, 49>> @@ 2 :> <<108, 50>> @@ 3 :> <<108, 51>>
Suffix ==
    "Consumed" :> <<95, 99, 111, 110, 115, 117, 109, 101, 100>>
    @@
    "Produced" :> <<95, 112, 114, 111, 100, 117, 99, 101, 100>>
    @@
    "Current" :> <<95, 99, 117, 114, 114, 101, 110, 116>>
    @@
    "Consuming" :> <<95, 99, 111, 110, 115, 117, 109, 105, 110, 103>>
    @@
    "Producing" :> <<95, 112, 114, 111, 100, 117, 99, 105, 110, 103>>
ListedKey(l) ==
  IF l.tag \in DOMAIN FixedKeys THEN FixedKeys[l.tag]
  ELSE IF l.tag \in {"Consumed", "Produced"}
    THEN <<116, 97, 114, 105, 102, 102, 95>> \o TariffNumber[l.key] \o Suffix[l.tag]
  ELSE PhaseName[l.key] \o Suffix[l.tag]
ValueCarrying ==
  DOMAIN FixedKeys \cup DOMAIN Suffix

\* "key": value for a line of a value-carrying variant, nothing for another.
Pair(l) ==
  IF l.tag \in ValueCarrying
  THEN <<34>> \o ListedKey(l) \o <<34, 58, 32>> \o ValueText(l)
  ELSE <<>>
WithoutCommas(text) == SelectSeq(text, LAMBDA c : c # 44)

\* C29: serialize writes one "key": value pair for every line of a
\* value-carrying variant, in the order of the lines and under the listed
\* key names, and nothing for EquipmentId, PowerFailureLog and UnknownObis
\* lines: apart from the separating commas the text is "{", the pairs of
\* the lines in order, "}".
KeysInLineOrder ==
  pc = "serialized" =>
    /\ \A k \in 1..Len(out[1].lines) :
         out[1].lines[k].tag \in
           ValueCarrying \cup {"EquipmentId", "PowerFailureLog", "UnknownObis"}
    /\ WithoutCommas(json) =
         <<123>> \o Flatten([k \in 1..Len(out[1].lines) |-> Pair(out[1].lines[k])])
           \o <<125>>
KeysInLineOrderWitness ==
  /\ pc = "serialized"
  /\ out[1].lines = ExampleLines
  /\ Emitted(out[1].lines) = 16
  /\ SubSeq(json, 1, 19) = <<123, 34, 100, 115, 109, 114, 95, 118, 101, 114, 115, 105, 111, 110, 34, 58, 32, 52, 50>>
  /\ SubSeq(json, Len(json) - 17, Len(json)) = <<34, 108, 49, 95, 99, 111, 110, 115, 117, 109, 105, 110, 103, 34, 58, 32, 48, 125>>

\* C31: Incomplete is not a permanent verdict: for every buffer on which
\* parse returns (0, Incomplete), some text that may arrive after it (the
\* rest of its telegram, or more lines, a trailer or a whole telegram) makes
\* parse of the longer buffer return another result, so that a caller that
\* appends what the meter sends is not held on the same buffer for ever.
IncompleteIsNotPermanent ==
  (Called /\ First.kind = "Incomplete" /\ First.consumed = 0) =>
    \E s \in TextTails \cup {feed.extra} :
       parse(feed.input \o s).kind # "Incomplete"

\* The bytes consumed by the calls before call i, and the buffer call i got.
RECURSIVE EatenBefore(_)
EatenBefore(i) == IF i <= 1 THEN 0 ELSE EatenBefore(i - 1) + out[i - 1].consumed
Offered(i) == From(feed.input, EatenBefore(i) + 1)

\* C32: every call of the loop "parse; drop the consumed bytes; repeat" on a
\* buffer of n bytes returns an outcome whose consumed count is between 0
\* and the length of the input it got, so that at most n calls consume
\* bytes and the loop stops only at a call that returned with consumed = 0.
LoopReachesIdleCall ==
  /\ \A i \in 1..Len(out) :
       /\ out[i].kind \in ResultKinds
       /\ out[i].consumed >= 0 /\ out[i].consumed <= Len(Offered(i))
  /\ Cardinality({i \in 1..Len(out) : out[i].consumed > 0}) <= Len(feed.input)
  /\ (pc = "aborted" \/ (pc = "advance" /\ out[Len(out)].consumed = 0)) =>
       out[Len(out)].kind \in ResultKinds /\ out[Len(out)].consumed = 0

\* C33: the receive buffer is never overrun: read_buffer_pos stays at most
\* READ_BUF_SZ, and poll never stores a byte at an index of READ_BUF_SZ or
\* above, which ends the program on the index check.
ReadBufferNeverOverrun ==
  /\ Len(buf) <= READ_BUF_SZ
  /\ ~(pc = "aborted" /\ Len(buf) = READ_BUF_SZ
         /\ (out = <<>> \/ out[Len(out)].kind # "Panic"))

\* One poll of the MQTT client.
Polled == PollActive \/ PollBackoff \/ PollConnect
\* The packets of the session in which x comes before the i-th.
Before(i, x) == \E j \in 1..(i - 1) : out[j] = x
\* In every TCP session CONNECT is the first packet, the accepted CONNACK
\* follows a CONNECT, the status publish follows the accepted CONNACK and a
\* usage publish follows the status publish; a client past Unconnected on an
\* active socket has sent that session's CONNECT.
SessionInOrder ==
  /\ \A i \in 1..Len(out) :
       /\ out[i] = "CONNECT" => i = 1
       /\ out[i] = "CONNACK" => Before(i, "CONNECT")
       /\ out[i] = "STATUS" => Before(i, "CONNACK")
       /\ out[i] = "USAGE" => Before(i, "STATUS") /\ Before(i, "CONNACK")
  /\ (is_active(wire) /\ acc.mqtt_state \in {"Connecting", "Connected", "Ready"}) =>
       out # <<>> /\ out[1] = "CONNECT"
  /\ wire.state = "SynSent" => acc.mqtt_state = "Unconnected" /\ out = <<>>
\* A status publish is sent from state Connected, a usage publish in state
\* Ready, and a poll with the socket inactive leaves the state Unconnected.
SessionSteps ==
  /\ (Len(out') > Len(out) /\ out'[Len(out')] = "STATUS") =>
       acc.mqtt_state \in {"Connecting", "Connected"} /\ acc'.mqtt_state = "Ready"
  /\ (Len(out') > Len(out) /\ out'[Len(out')] = "USAGE") =>
       acc.mqtt_state = "Ready" /\ acc'.mqtt_state = "Ready"
  /\ (Polled /\ ~is_active(wire)) => acc'.mqtt_state = "Unconnected"
\* C34: MQTT session ordering: within every TCP session CONNECT is sent
\* first, the online status is published only after an accepted CONNACK, a
\* usage telegram only in state Ready after the status publish, and after
\* the socket went inactive the state is Unconnected again, so no PUBLISH
\* precedes the CONNECT and accepted CONNACK of its own session.
MqttSessionOrdering == []SessionInOrder /\ [][SessionSteps]_vars
\* A later session, after one in which telegram 1 was published, has gone
\* through CONNECT, the accepted CONNACK and the status publish.
MqttSessionOrderingWitness ==
  /\ feed.fam = "mqtt" /\ wire.state = "Established"
  /\ out = <<"CONNECT", "CONNACK", "STATUS">>
  /\ json = <<1>> /\ acc.mqtt_state = "Ready"

\* The backoff values, the waits between consecutive failed attempts, and
\* the polls of the current wait: those made and those left add up to the
\* value the backoff was armed with.
BackoffInRange ==
  /\ acc.next_backoff >= INITIAL_BACKOFF /\ acc.next_backoff <= BACKOFF_CAP
  /\ acc.current_backoff >= 0 /\ acc.current_backoff <= BACKOFF_CAP
  /\ \A i \in 1..Len(buf) : buf[i] = Wait(i)
  /\ feed.failed =>
       /\ feed.idle + acc.current_backoff = feed.armed
       /\ feed.armed = Wait(Len(buf) + 1)
       /\ acc.next_backoff = Min(2 * feed.armed, BACKOFF_CAP)
\* A connect attempt, and the poll that finds the connection established.
BackoffSteps ==
  /\ (acc'.current_backoff > acc.current_backoff
        \/ (wire.state = "Closed" /\ wire'.state = "SynSent")) =>
       /\ PollConnect /\ ~is_active(wire) /\ acc.current_backoff = 0
       /\ acc'.current_backoff = acc.next_backoff
       /\ acc'.next_backoff = Min(2 * acc.next_backoff, BACKOFF_CAP)
  /\ (Polled /\ may_send(wire) /\ ~acc.connected) =>
       acc'.next_backoff = INITIAL_BACKOFF /\ acc'.current_backoff = 0
  /\ (Polled /\ ~is_active(wire) /\ acc.current_backoff > 0) =>
       acc'.current_backoff = acc.current_backoff - 1 /\ wire' = wire
\* C35: reconnect backoff: a connect attempt is made only in a poll with the
\* socket inactive and current_backoff = 0; it sets current_backoff to
\* next_backoff and doubles next_backoff up to 400000, so consecutive failed
\* attempts are 1000, 2000, 4000, ... up to 400000 polls apart; next_backoff
\* stays within 1000..400000 and current_backoff within 0..400000; a poll
\* that finds the connection established resets them to 1000 and 0.
ReconnectBackoff == []BackoffInRange /\ [][BackoffSteps]_vars
\* Eleven attempts have failed in a row: the waits were 1000 doubling up to
\* 256000 and then 400000, and next_backoff stands at the cap.
ReconnectBackoffWitness ==
  /\ feed.fam = "mqtt" /\ Len(buf) = 10
  /\ buf[1] = 1000 /\ buf[2] = 2000 /\ buf[9] = 256000 /\ buf[10] = 400000
  /\ acc.next_backoff = BACKOFF_CAP /\ acc.current_backoff = BACKOFF_CAP

\* The telegrams handed to send_telegram are in the order queued, each once.
HandedOnce == \A i \in 1..Len(json), j \in 1..Len(json) : i < j => json[i] < json[j]
\* queue_telegram puts the newest telegram in the one place; a telegram is
\* handed over in a poll in state Ready with a socket that can send, and the
\* place is then empty; any other poll leaves it queued.
QueueSteps ==
  /\ QueueTelegram =>
       acc'.queued_telegram = feed'.telegrams /\ acc'.queued_telegram > acc.queued_telegram
  /\ json' # json =>
       /\ PollActive /\ acc.mqtt_state = "Ready" /\ acc'.mqtt_state = "Ready"
       /\ can_send(wire) /\ acc.queued_telegram # 0
       /\ json' = Append(json, acc.queued_telegram)
       /\ acc'.queued_telegram = 0
  /\ (Polled /\ json' = json) => acc'.queued_telegram = acc.queued_telegram
\* C36: telegram queue of depth one: at most one telegram is pending,
\* queue_telegram replaces an unsent older one by the newer, a queued
\* telegram is handed to send_telegram at most once and only in a poll in
\* state Ready with a socket that can send, and otherwise stays queued.
QueueOfDepthOne == []HandedOnce /\ [][QueueSteps]_vars
\* Telegram 1 was replaced by telegram 2 before the client was Ready, and
\* telegram 2 alone was handed over.
QueueOfDepthOneWitness ==
  /\ feed.fam = "mqtt" /\ feed.telegrams = 2 /\ json = <<2>>
  /\ acc.queued_telegram = 0 /\ out = <<"CONNECT", "CONNACK", "STATUS", "USAGE">>

\* The client is Invalid only while it holds the socket for connected.
InvalidIsConnected == acc.mqtt_state = "Invalid" => acc.connected
\* A poll that takes a CONNACK outside Connecting, a refused CONNACK or a
\* packet that is neither CONNACK nor PINGRESP ends in Invalid; from Invalid
\* nothing is sent, and the state is left only by a poll with the socket
\* inactive, for Unconnected.
InvalidSteps ==
  /\ (PollActive /\ can_recv(wire)) =>
       /\ (wire.rx[1] = "ConnackAccepted" /\ acc.mqtt_state # "Connecting") =>
            acc'.mqtt_state = "Invalid"
       /\ wire.rx[1] \in {"ConnackRefused", "Publish"} => acc'.mqtt_state = "Invalid"
  /\ acc.mqtt_state = "Invalid" =>
       /\ out' = out \/ (PollConnect /\ out' = <<>>)
       /\ is_active(wire) => acc'.mqtt_state = "Invalid"
       /\ acc'.mqtt_state \in {"Invalid", "Unconnected"}
       /\ (Polled /\ ~is_active(wire)) => acc'.mqtt_state = "Unconnected"
\* C37: MQTT state Invalid is left only through a TCP disconnect: an
\* unexpected or refused CONNACK or any packet other than CONNACK and
\* PINGRESP moves the client to Invalid; while Invalid with the socket
\* active it sends nothing and keeps its state; it returns to Unconnected
\* only when the socket has become inactive.
InvalidUntilDisconnect == []InvalidIsConnected /\ [][InvalidSteps]_vars
\* A Ready client was sent a packet it does not expect and is Invalid, with
\* nothing sent after the status publish and a telegram still queued.
InvalidUntilDisconnectWitness ==
  /\ feed.fam = "mqtt" /\ acc.mqtt_state = "Invalid" /\ is_active(wire)
  /\ out = <<"CONNECT", "CONNACK", "STATUS">> /\ acc.queued_telegram = 1
  /\ wire.rx = <<>>

\* C38: the DMA hand-off loses no completion: once the handler has stored a
\* filled buffer in RX_BUFFER and set RX_READY, RX_READY stays true until a
\* poll has observed it, and is set to false for a buffer that is not yet
\* taken only by that poll, which goes on to take and drain the buffer.
CompletionNotLost ==
  (wire.RX_BUFFER.some /\ wire.RX_BUFFER.data # <<>>) =>
    (wire.RX_READY \/ pc = "poll_take")

\* C39: the per-phase power lines are dispatched as the totals are: in the
\* parsed example telegram 1-0:1.7.0(00.329*kW) is TotalConsuming(329),
\* 1-0:21.7.0(00.329*kW) is Consuming(L1, 329) and 1-0:22.7.0(00.000*kW) is
\* Producing(L1, 0).
PhasePowerLikeTotals ==
  (feed.fam = "example" /\ Called /\ First.kind = "Ok") =>
    /\ First.lines[9] = ValueLine("TotalConsuming", 0, 329)
    /\ First.lines[10] = ValueLine("TotalProducing", 0, 0)
    /\ First.lines[19] = ValueLine("Consuming", 1, 329)
    /\ First.lines[20] = ValueLine("Producing", 1, 0)

====
